---------------------------- MODULE Spec2Model ----------------------------
(***************************************************************************)
(* A model of mslotto (src/main.go): the landing-page link scan, the table *)
(* extractor, the metadata and prize parsers, the Game model with its EV,  *)
(* and main's bounded-concurrency fetch, aggregate, sort and write.        *)
(*                                                                         *)
(* Strings are sequences of one-character strings, so that the parsers     *)
(* are computed character by character as the code computes them; a       *)
(* character outside ASCII or without an escape is written by its code     *)
(* point, as in "U+00A0".  An int is a sign and a magnitude of 64 bits:    *)
(* sums wrap around, and Atoi yields the nearest int for a number out of   *)
(* range.  A float64 is computed bit for bit: each operation rounds its    *)
(* exact result to the nearest float64.  Two things depend on the platform *)
(* of the build, which every behaviour chooses at its start: what int(f)   *)
(* yields for a float64 no int holds, and whether x * y + z is fused into  *)
(* one operation that rounds once.                                         *)
(***************************************************************************)
EXTENDS Integers, Sequences, FiniteSets, TLC

VARIABLES
    \* The platform the program was built for
    build,
    \* main: the launcher, the fetch tasks, the limiter, the lock, the report
    pc, li, wi, sem, mu, games, tpc, fetched, ttables, tg, rows, exit,
    \* GetLinks: the tokens read so far and the loop's locals
    lpc, lseen, links, inActiveSession, divDepth,
    \* ExtractTables: the tokens read so far and the loop's locals
    xpc, xseen, tables, currentTable, currentRow, inTable, inRow, inCell,
    \* BuildGame and EV applied to one page's tables
    gpc, gtables, ggame, gev

mainVars == <<pc, li, wi, sem, mu, games, tpc, fetched, ttables, tg, rows, exit>>

linkVars == <<lpc, lseen, links, inActiveSession, divDepth>>

tableVars == <<xpc, xseen, tables, currentTable, currentRow, inTable, inRow, inCell>>

gameVars == <<gpc, gtables, ggame, gev>>

vars == <<build, mainVars, linkVars, tableVars, gameVars>>

(***************************************************************************)
(* Characters and the strings/strconv functions the code calls             *)
(***************************************************************************)
Digits == <<"0", "1", "2", "3", "4", "5", "6", "7", "8", "9">>

UpperCase == <<"A", "B", "C", "D", "E", "F", "G", "H", "I", "J", "K", "L", "M",
               "N", "O", "P", "Q", "R", "S", "T", "U", "V", "W", "X", "Y", "Z">>

LowerCase == <<"a", "b", "c", "d", "e", "f", "g", "h", "i", "j", "k", "l", "m",
               "n", "o", "p", "q", "r", "s", "t", "u", "v", "w", "x", "y", "z">>

\* The characters unicode.IsSpace holds for (Unicode's White_Space)
WhiteSpace ==
    {" ", "\t", "\n", "\r", "\f", "U+000B", "U+0085", "U+00A0", "U+1680",
     "U+2000", "U+2001", "U+2002", "U+2003", "U+2004", "U+2005", "U+2006",
     "U+2007", "U+2008", "U+2009", "U+200A", "U+2028", "U+2029", "U+202F",
     "U+205F", "U+3000"}

IsDigit(c) == \E i \in 1..10 : Digits[i] = c

DigitVal(c) == (CHOOSE i \in 1..10 : Digits[i] = c) - 1

\* The lower-case letter of an ASCII capital, any other character itself
LowerASCII(c) ==
    IF \E i \in 1..26 : UpperCase[i] = c
    THEN LowerCase[CHOOSE i \in 1..26 : UpperCase[i] = c]
    ELSE c

\* The characters outside ASCII that have a lower-case letter of their own
\* (the simple case mappings of the Unicode character database, 1407 of
\* them), in the order of their code points
UpperRunes ==
    <<"U+00C0", "U+00C1", "U+00C2", "U+00C3", "U+00C4", "U+00C5", "U+00C6",
      "U+00C7", "U+00C8", "U+00C9", "U+00CA", "U+00CB", "U+00CC", "U+00CD",
      "U+00CE", "U+00CF", "U+00D0", "U+00D1", "U+00D2", "U+00D3", "U+00D4",
      "U+00D5", "U+00D6", "U+00D8", "U+00D9", "U+00DA", "U+00DB", "U+00DC",
      "U+00DD", "U+00DE", "U+0100", "U+0102", "U+0104", "U+0106", "U+0108",
      "U+010A", "U+010C", "U+010E", "U+0110", "U+0112", "U+0114", "U+0116",
      "U+0118", "U+011A", "U+011C", "U+011E", "U+0120", "U+0122", "U+0124",
      "U+0126", "U+0128", "U+012A", "U+012C", "U+012E", "U+0130", "U+0132",
      "U+0134", "U+0136", "U+0139", "U+013B", "U+013D", "U+013F", "U+0141",
      "U+0143", "U+0145", "U+0147", "U+014A", "U+014C", "U+014E", "U+0150",
      "U+0152", "U+0154", "U+0156", "U+0158", "U+015A", "U+015C", "U+015E",
      "U+0160", "U+0162", "U+0164", "U+0166", "U+0168", "U+016A", "U+016C",
      "U+016E", "U+0170", "U+0172", "U+0174", "U+0176", "U+0178", "U+0179",
      "U+017B", "U+017D", "U+0181", "U+0182", "U+0184", "U+0186", "U+0187",
      "U+0189", "U+018A", "U+018B", "U+018E", "U+018F", "U+0190", "U+0191",
      "U+0193", "U+0194", "U+0196", "U+0197", "U+0198", "U+019C", "U+019D",
      "U+019F", "U+01A0", "U+01A2", "U+01A4", "U+01A6", "U+01A7", "U+01A9",
      "U+01AC", "U+01AE", "U+01AF", "U+01B1", "U+01B2", "U+01B3", "U+01B5",
      "U+01B7", "U+01B8", "U+01BC", "U+01C4", "U+01C5", "U+01C7", "U+01C8",
      "U+01CA", "U+01CB", "U+01CD", "U+01CF", "U+01D1", "U+01D3", "U+01D5",
      "U+01D7", "U+01D9", "U+01DB", "U+01DE", "U+01E0", "U+01E2", "U+01E4",
      "U+01E6", "U+01E8", "U+01EA", "U+01EC", "U+01EE", "U+01F1", "U+01F2",
      "U+01F4", "U+01F6", "U+01F7", "U+01F8", "U+01FA", "U+01FC", "U+01FE",
      "U+0200", "U+0202", "U+0204", "U+0206", "U+0208", "U+020A", "U+020C",
      "U+020E", "U+0210", "U+0212", "U+0214", "U+0216", "U+0218", "U+021A",
      "U+021C", "U+021E", "U+0220", "U+0222", "U+0224", "U+0226", "U+0228",
      "U+022A", "U+022C", "U+022E", "U+0230", "U+0232", "U+023A", "U+023B",
      "U+023D", "U+023E", "U+0241", "U+0243", "U+0244", "U+0245", "U+0246",
      "U+0248", "U+024A", "U+024C", "U+024E", "U+0370", "U+0372", "U+0376",
      "U+037F", "U+0386", "U+0388", "U+0389", "U+038A", "U+038C", "U+038E",
      "U+038F", "U+0391", "U+0392", "U+0393", "U+0394", "U+0395", "U+0396",
      "U+0397", "U+0398", "U+0399", "U+039A", "U+039B", "U+039C", "U+039D",
      "U+039E", "U+039F", "U+03A0", "U+03A1", "U+03A3", "U+03A4", "U+03A5",
      "U+03A6", "U+03A7", "U+03A8", "U+03A9", "U+03AA", "U+03AB", "U+03CF",
      "U+03D8", "U+03DA", "U+03DC", "U+03DE", "U+03E0", "U+03E2", "U+03E4",
      "U+03E6", "U+03E8", "U+03EA", "U+03EC", "U+03EE", "U+03F4", "U+03F7",
      "U+03F9", "U+03FA", "U+03FD", "U+03FE", "U+03FF", "U+0400", "U+0401",
      "U+0402", "U+0403", "U+0404", "U+0405", "U+0406", "U+0407", "U+0408",
      "U+0409", "U+040A", "U+040B", "U+040C", "U+040D", "U+040E", "U+040F",
      "U+0410", "U+0411", "U+0412", "U+0413", "U+0414", "U+0415", "U+0416",
      "U+0417", "U+0418", "U+0419", "U+041A", "U+041B", "U+041C", "U+041D",
      "U+041E", "U+041F", "U+0420", "U+0421", "U+0422", "U+0423", "U+0424",
      "U+0425", "U+0426", "U+0427", "U+0428", "U+0429", "U+042A", "U+042B",
      "U+042C", "U+042D", "U+042E", "U+042F", "U+0460", "U+0462", "U+0464",
      "U+0466", "U+0468", "U+046A", "U+046C", "U+046E", "U+0470", "U+0472",
      "U+0474", "U+0476", "U+0478", "U+047A", "U+047C", "U+047E", "U+0480",
      "U+048A", "U+048C", "U+048E", "U+0490", "U+0492", "U+0494", "U+0496",
      "U+0498", "U+049A", "U+049C", "U+049E", "U+04A0", "U+04A2", "U+04A4",
      "U+04A6", "U+04A8", "U+04AA", "U+04AC", "U+04AE", "U+04B0", "U+04B2",
      "U+04B4", "U+04B6", "U+04B8", "U+04BA", "U+04BC", "U+04BE", "U+04C0",
      "U+04C1", "U+04C3", "U+04C5", "U+04C7", "U+04C9", "U+04CB", "U+04CD",
      "U+04D0", "U+04D2", "U+04D4", "U+04D6", "U+04D8", "U+04DA", "U+04DC",
      "U+04DE", "U+04E0", "U+04E2", "U+04E4", "U+04E6", "U+04E8", "U+04EA",
      "U+04EC", "U+04EE", "U+04F0", "U+04F2", "U+04F4", "U+04F6", "U+04F8",
      "U+04FA", "U+04FC", "U+04FE", "U+0500", "U+0502", "U+0504", "U+0506",
      "U+0508", "U+050A", "U+050C", "U+050E", "U+0510", "U+0512", "U+0514",
      "U+0516", "U+0518", "U+051A", "U+051C", "U+051E", "U+0520", "U+0522",
      "U+0524", "U+0526", "U+0528", "U+052A", "U+052C", "U+052E", "U+0531",
      "U+0532", "U+0533", "U+0534", "U+0535", "U+0536", "U+0537", "U+0538",
      "U+0539", "U+053A", "U+053B", "U+053C", "U+053D", "U+053E", "U+053F",
      "U+0540", "U+0541", "U+0542", "U+0543", "U+0544", "U+0545", "U+0546",
      "U+0547", "U+0548", "U+0549", "U+054A", "U+054B", "U+054C", "U+054D",
      "U+054E", "U+054F", "U+0550", "U+0551", "U+0552", "U+0553", "U+0554",
      "U+0555", "U+0556", "U+10A0", "U+10A1", "U+10A2", "U+10A3", "U+10A4",
      "U+10A5", "U+10A6", "U+10A7", "U+10A8", "U+10A9", "U+10AA", "U+10AB",
      "U+10AC", "U+10AD", "U+10AE", "U+10AF", "U+10B0", "U+10B1", "U+10B2",
      "U+10B3", "U+10B4", "U+10B5", "U+10B6", "U+10B7", "U+10B8", "U+10B9",
      "U+10BA", "U+10BB", "U+10BC", "U+10BD", "U+10BE", "U+10BF", "U+10C0",
      "U+10C1", "U+10C2", "U+10C3", "U+10C4", "U+10C5", "U+10C7", "U+10CD",
      "U+13A0", "U+13A1", "U+13A2", "U+13A3", "U+13A4", "U+13A5", "U+13A6",
      "U+13A7", "U+13A8", "U+13A9", "U+13AA", "U+13AB", "U+13AC", "U+13AD",
      "U+13AE", "U+13AF", "U+13B0", "U+13B1", "U+13B2", "U+13B3", "U+13B4",
      "U+13B5", "U+13B6", "U+13B7", "U+13B8", "U+13B9", "U+13BA", "U+13BB",
      "U+13BC", "U+13BD", "U+13BE", "U+13BF", "U+13C0", "U+13C1", "U+13C2",
      "U+13C3", "U+13C4", "U+13C5", "U+13C6", "U+13C7", "U+13C8", "U+13C9",
      "U+13CA", "U+13CB", "U+13CC", "U+13CD", "U+13CE", "U+13CF", "U+13D0",
      "U+13D1", "U+13D2", "U+13D3", "U+13D4", "U+13D5", "U+13D6", "U+13D7",
      "U+13D8", "U+13D9", "U+13DA", "U+13DB", "U+13DC", "U+13DD", "U+13DE",
      "U+13DF", "U+13E0", "U+13E1", "U+13E2", "U+13E3", "U+13E4", "U+13E5",
      "U+13E6", "U+13E7", "U+13E8", "U+13E9", "U+13EA", "U+13EB", "U+13EC",
      "U+13ED", "U+13EE", "U+13EF", "U+13F0", "U+13F1", "U+13F2", "U+13F3",
      "U+13F4", "U+13F5", "U+1C90", "U+1C91", "U+1C92", "U+1C93", "U+1C94",
      "U+1C95", "U+1C96", "U+1C97", "U+1C98", "U+1C99", "U+1C9A", "U+1C9B",
      "U+1C9C", "U+1C9D", "U+1C9E", "U+1C9F", "U+1CA0", "U+1CA1", "U+1CA2",
      "U+1CA3", "U+1CA4", "U+1CA5", "U+1CA6", "U+1CA7", "U+1CA8", "U+1CA9",
      "U+1CAA", "U+1CAB", "U+1CAC", "U+1CAD", "U+1CAE", "U+1CAF", "U+1CB0",
      "U+1CB1", "U+1CB2", "U+1CB3", "U+1CB4", "U+1CB5", "U+1CB6", "U+1CB7",
      "U+1CB8", "U+1CB9", "U+1CBA", "U+1CBD", "U+1CBE", "U+1CBF", "U+1E00",
      "U+1E02", "U+1E04", "U+1E06", "U+1E08", "U+1E0A", "U+1E0C", "U+1E0E",
      "U+1E10", "U+1E12", "U+1E14", "U+1E16", "U+1E18", "U+1E1A", "U+1E1C",
      "U+1E1E", "U+1E20", "U+1E22", "U+1E24", "U+1E26", "U+1E28", "U+1E2A",
      "U+1E2C", "U+1E2E", "U+1E30", "U+1E32", "U+1E34", "U+1E36", "U+1E38",
      "U+1E3A", "U+1E3C", "U+1E3E", "U+1E40", "U+1E42", "U+1E44", "U+1E46",
      "U+1E48", "U+1E4A", "U+1E4C", "U+1E4E", "U+1E50", "U+1E52", "U+1E54",
      "U+1E56", "U+1E58", "U+1E5A", "U+1E5C", "U+1E5E", "U+1E60", "U+1E62",
      "U+1E64", "U+1E66", "U+1E68", "U+1E6A", "U+1E6C", "U+1E6E", "U+1E70",
      "U+1E72", "U+1E74", "U+1E76", "U+1E78", "U+1E7A", "U+1E7C", "U+1E7E",
      "U+1E80", "U+1E82", "U+1E84", "U+1E86", "U+1E88", "U+1E8A", "U+1E8C",
      "U+1E8E", "U+1E90", "U+1E92", "U+1E94", "U+1E9E", "U+1EA0", "U+1EA2",
      "U+1EA4", "U+1EA6", "U+1EA8", "U+1EAA", "U+1EAC", "U+1EAE", "U+1EB0",
      "U+1EB2", "U+1EB4", "U+1EB6", "U+1EB8", "U+1EBA", "U+1EBC", "U+1EBE",
      "U+1EC0", "U+1EC2", "U+1EC4", "U+1EC6", "U+1EC8", "U+1ECA", "U+1ECC",
      "U+1ECE", "U+1ED0", "U+1ED2", "U+1ED4", "U+1ED6", "U+1ED8", "U+1EDA",
      "U+1EDC", "U+1EDE", "U+1EE0", "U+1EE2", "U+1EE4", "U+1EE6", "U+1EE8",
      "U+1EEA", "U+1EEC", "U+1EEE", "U+1EF0", "U+1EF2", "U+1EF4", "U+1EF6",
      "U+1EF8", "U+1EFA", "U+1EFC", "U+1EFE", "U+1F08", "U+1F09", "U+1F0A",
      "U+1F0B", "U+1F0C", "U+1F0D", "U+1F0E", "U+1F0F", "U+1F18", "U+1F19",
      "U+1F1A", "U+1F1B", "U+1F1C", "U+1F1D", "U+1F28", "U+1F29", "U+1F2A",
      "U+1F2B", "U+1F2C", "U+1F2D", "U+1F2E", "U+1F2F", "U+1F38", "U+1F39",
      "U+1F3A", "U+1F3B", "U+1F3C", "U+1F3D", "U+1F3E", "U+1F3F", "U+1F48",
      "U+1F49", "U+1F4A", "U+1F4B", "U+1F4C", "U+1F4D", "U+1F59", "U+1F5B",
      "U+1F5D", "U+1F5F", "U+1F68", "U+1F69", "U+1F6A", "U+1F6B", "U+1F6C",
      "U+1F6D", "U+1F6E", "U+1F6F", "U+1F88", "U+1F89", "U+1F8A", "U+1F8B",
      "U+1F8C", "U+1F8D", "U+1F8E", "U+1F8F", "U+1F98", "U+1F99", "U+1F9A",
      "U+1F9B", "U+1F9C", "U+1F9D", "U+1F9E", "U+1F9F", "U+1FA8", "U+1FA9",
      "U+1FAA", "U+1FAB", "U+1FAC", "U+1FAD", "U+1FAE", "U+1FAF", "U+1FB8",
      "U+1FB9", "U+1FBA", "U+1FBB", "U+1FBC", "U+1FC8", "U+1FC9", "U+1FCA",
      "U+1FCB", "U+1FCC", "U+1FD8", "U+1FD9", "U+1FDA", "U+1FDB", "U+1FE8",
      "U+1FE9", "U+1FEA", "U+1FEB", "U+1FEC", "U+1FF8", "U+1FF9", "U+1FFA",
      "U+1FFB", "U+1FFC", "U+2126", "U+212A", "U+212B", "U+2132", "U+2160",
      "U+2161", "U+2162", "U+2163", "U+2164", "U+2165", "U+2166", "U+2167",
      "U+2168", "U+2169", "U+216A", "U+216B", "U+216C", "U+216D", "U+216E",
      "U+216F", "U+2183", "U+24B6", "U+24B7", "U+24B8", "U+24B9", "U+24BA",
      "U+24BB", "U+24BC", "U+24BD", "U+24BE", "U+24BF", "U+24C0", "U+24C1",
      "U+24C2", "U+24C3", "U+24C4", "U+24C5", "U+24C6", "U+24C7", "U+24C8",
      "U+24C9", "U+24CA", "U+24CB", "U+24CC", "U+24CD", "U+24CE", "U+24CF",
      "U+2C00", "U+2C01", "U+2C02", "U+2C03", "U+2C04", "U+2C05", "U+2C06",
      "U+2C07", "U+2C08", "U+2C09", "U+2C0A", "U+2C0B", "U+2C0C", "U+2C0D",
      "U+2C0E", "U+2C0F", "U+2C10", "U+2C11", "U+2C12", "U+2C13", "U+2C14",
      "U+2C15", "U+2C16", "U+2C17", "U+2C18", "U+2C19", "U+2C1A", "U+2C1B",
      "U+2C1C", "U+2C1D", "U+2C1E", "U+2C1F", "U+2C20", "U+2C21", "U+2C22",
      "U+2C23", "U+2C24", "U+2C25", "U+2C26", "U+2C27", "U+2C28", "U+2C29",
      "U+2C2A", "U+2C2B", "U+2C2C", "U+2C2D", "U+2C2E", "U+2C2F", "U+2C60",
      "U+2C62", "U+2C63", "U+2C64", "U+2C67", "U+2C69", "U+2C6B", "U+2C6D",
      "U+2C6E", "U+2C6F", "U+2C70", "U+2C72", "U+2C75", "U+2C7E", "U+2C7F",
      "U+2C80", "U+2C82", "U+2C84", "U+2C86", "U+2C88", "U+2C8A", "U+2C8C",
      "U+2C8E", "U+2C90", "U+2C92", "U+2C94", "U+2C96", "U+2C98", "U+2C9A",
      "U+2C9C", "U+2C9E", "U+2CA0", "U+2CA2", "U+2CA4", "U+2CA6", "U+2CA8",
      "U+2CAA", "U+2CAC", "U+2CAE", "U+2CB0", "U+2CB2", "U+2CB4", "U+2CB6",
      "U+2CB8", "U+2CBA", "U+2CBC", "U+2CBE", "U+2CC0", "U+2CC2", "U+2CC4",
      "U+2CC6", "U+2CC8", "U+2CCA", "U+2CCC", "U+2CCE", "U+2CD0", "U+2CD2",
      "U+2CD4", "U+2CD6", "U+2CD8", "U+2CDA", "U+2CDC", "U+2CDE", "U+2CE0",
      "U+2CE2", "U+2CEB", "U+2CED", "U+2CF2", "U+A640", "U+A642", "U+A644",
      "U+A646", "U+A648", "U+A64A", "U+A64C", "U+A64E", "U+A650", "U+A652",
      "U+A654", "U+A656", "U+A658", "U+A65A", "U+A65C", "U+A65E", "U+A660",
      "U+A662", "U+A664", "U+A666", "U+A668", "U+A66A", "U+A66C", "U+A680",
      "U+A682", "U+A684", "U+A686", "U+A688", "U+A68A", "U+A68C", "U+A68E",
      "U+A690", "U+A692", "U+A694", "U+A696", "U+A698", "U+A69A", "U+A722",
      "U+A724", "U+A726", "U+A728", "U+A72A", "U+A72C", "U+A72E", "U+A732",
      "U+A734", "U+A736", "U+A738", "U+A73A", "U+A73C", "U+A73E", "U+A740",
      "U+A742", "U+A744", "U+A746", "U+A748", "U+A74A", "U+A74C", "U+A74E",
      "U+A750", "U+A752", "U+A754", "U+A756", "U+A758", "U+A75A", "U+A75C",
      "U+A75E", "U+A760", "U+A762", "U+A764", "U+A766", "U+A768", "U+A76A",
      "U+A76C", "U+A76E", "U+A779", "U+A77B", "U+A77D", "U+A77E", "U+A780",
      "U+A782", "U+A784", "U+A786", "U+A78B", "U+A78D", "U+A790", "U+A792",
      "U+A796", "U+A798", "U+A79A", "U+A79C", "U+A79E", "U+A7A0", "U+A7A2",
      "U+A7A4", "U+A7A6", "U+A7A8", "U+A7AA", "U+A7AB", "U+A7AC", "U+A7AD",
      "U+A7AE", "U+A7B0", "U+A7B1", "U+A7B2", "U+A7B3", "U+A7B4", "U+A7B6",
      "U+A7B8", "U+A7BA", "U+A7BC", "U+A7BE", "U+A7C0", "U+A7C2", "U+A7C4",
      "U+A7C5", "U+A7C6", "U+A7C7", "U+A7C9", "U+A7D0", "U+A7D6", "U+A7D8",
      "U+A7F5", "U+FF21", "U+FF22", "U+FF23", "U+FF24", "U+FF25", "U+FF26",
      "U+FF27", "U+FF28", "U+FF29", "U+FF2A", "U+FF2B", "U+FF2C", "U+FF2D",
      "U+FF2E", "U+FF2F", "U+FF30", "U+FF31", "U+FF32", "U+FF33", "U+FF34",
      "U+FF35", "U+FF36", "U+FF37", "U+FF38", "U+FF39", "U+FF3A", "U+10400",
      "U+10401", "U+10402", "U+10403", "U+10404", "U+10405", "U+10406",
      "U+10407", "U+10408", "U+10409", "U+1040A", "U+1040B", "U+1040C",
      "U+1040D", "U+1040E", "U+1040F", "U+10410", "U+10411", "U+10412",
      "U+10413", "U+10414", "U+10415", "U+10416", "U+10417", "U+10418",
      "U+10419", "U+1041A", "U+1041B", "U+1041C", "U+1041D", "U+1041E",
      "U+1041F", "U+10420", "U+10421", "U+10422", "U+10423", "U+10424",
      "U+10425", "U+10426", "U+10427", "U+104B0", "U+104B1", "U+104B2",
      "U+104B3", "U+104B4", "U+104B5", "U+104B6", "U+104B7", "U+104B8",
      "U+104B9", "U+104BA", "U+104BB", "U+104BC", "U+104BD", "U+104BE",
      "U+104BF", "U+104C0", "U+104C1", "U+104C2", "U+104C3", "U+104C4",
      "U+104C5", "U+104C6", "U+104C7", "U+104C8", "U+104C9", "U+104CA",
      "U+104CB", "U+104CC", "U+104CD", "U+104CE", "U+104CF", "U+104D0",
      "U+104D1", "U+104D2", "U+104D3", "U+10570", "U+10571", "U+10572",
      "U+10573", "U+10574", "U+10575", "U+10576", "U+10577", "U+10578",
      "U+10579", "U+1057A", "U+1057C", "U+1057D", "U+1057E", "U+1057F",
      "U+10580", "U+10581", "U+10582", "U+10583", "U+10584", "U+10585",
      "U+10586", "U+10587", "U+10588", "U+10589", "U+1058A", "U+1058C",
      "U+1058D", "U+1058E", "U+1058F", "U+10590", "U+10591", "U+10592",
      "U+10594", "U+10595", "U+10C80", "U+10C81", "U+10C82", "U+10C83",
      "U+10C84", "U+10C85", "U+10C86", "U+10C87", "U+10C88", "U+10C89",
      "U+10C8A", "U+10C8B", "U+10C8C", "U+10C8D", "U+10C8E", "U+10C8F",
      "U+10C90", "U+10C91", "U+10C92", "U+10C93", "U+10C94", "U+10C95",
      "U+10C96", "U+10C97", "U+10C98", "U+10C99", "U+10C9A", "U+10C9B",
      "U+10C9C", "U+10C9D", "U+10C9E", "U+10C9F", "U+10CA0", "U+10CA1",
      "U+10CA2", "U+10CA3", "U+10CA4", "U+10CA5", "U+10CA6", "U+10CA7",
      "U+10CA8", "U+10CA9", "U+10CAA", "U+10CAB", "U+10CAC", "U+10CAD",
      "U+10CAE", "U+10CAF", "U+10CB0", "U+10CB1", "U+10CB2", "U+118A0",
      "U+118A1", "U+118A2", "U+118A3", "U+118A4", "U+118A5", "U+118A6",
      "U+118A7", "U+118A8", "U+118A9", "U+118AA", "U+118AB", "U+118AC",
      "U+118AD", "U+118AE", "U+118AF", "U+118B0", "U+118B1", "U+118B2",
      "U+118B3", "U+118B4", "U+118B5", "U+118B6", "U+118B7", "U+118B8",
      "U+118B9", "U+118BA", "U+118BB", "U+118BC", "U+118BD", "U+118BE",
      "U+118BF", "U+16E40", "U+16E41", "U+16E42", "U+16E43", "U+16E44",
      "U+16E45", "U+16E46", "U+16E47", "U+16E48", "U+16E49", "U+16E4A",
      "U+16E4B", "U+16E4C", "U+16E4D", "U+16E4E", "U+16E4F", "U+16E50",
      "U+16E51", "U+16E52", "U+16E53", "U+16E54", "U+16E55", "U+16E56",
      "U+16E57", "U+16E58", "U+16E59", "U+16E5A", "U+16E5B", "U+16E5C",
      "U+16E5D", "U+16E5E", "U+16E5F", "U+1E900", "U+1E901", "U+1E902",
      "U+1E903", "U+1E904", "U+1E905", "U+1E906", "U+1E907", "U+1E908",
      "U+1E909", "U+1E90A", "U+1E90B", "U+1E90C", "U+1E90D", "U+1E90E",
      "U+1E90F", "U+1E910", "U+1E911", "U+1E912", "U+1E913", "U+1E914",
      "U+1E915", "U+1E916", "U+1E917", "U+1E918", "U+1E919", "U+1E91A",
      "U+1E91B", "U+1E91C", "U+1E91D", "U+1E91E", "U+1E91F", "U+1E920",
      "U+1E921">>

\* The lower-case letter of each, in the same order
LowerRunes ==
    <<"U+00E0", "U+00E1", "U+00E2", "U+00E3", "U+00E4", "U+00E5", "U+00E6",
      "U+00E7", "U+00E8", "U+00E9", "U+00EA", "U+00EB", "U+00EC", "U+00ED",
      "U+00EE", "U+00EF", "U+00F0", "U+00F1", "U+00F2", "U+00F3", "U+00F4",
      "U+00F5", "U+00F6", "U+00F8", "U+00F9", "U+00FA", "U+00FB", "U+00FC",
      "U+00FD", "U+00FE", "U+0101", "U+0103", "U+0105", "U+0107", "U+0109",
      "U+010B", "U+010D", "U+010F", "U+0111", "U+0113", "U+0115", "U+0117",
      "U+0119", "U+011B", "U+011D", "U+011F", "U+0121", "U+0123", "U+0125",
      "U+0127", "U+0129", "U+012B", "U+012D", "U+012F", "i", "U+0133",
      "U+0135", "U+0137", "U+013A", "U+013C", "U+013E", "U+0140", "U+0142",
      "U+0144", "U+0146", "U+0148", "U+014B", "U+014D", "U+014F", "U+0151",
      "U+0153", "U+0155", "U+0157", "U+0159", "U+015B", "U+015D", "U+015F",
      "U+0161", "U+0163", "U+0165", "U+0167", "U+0169", "U+016B", "U+016D",
      "U+016F", "U+0171", "U+0173", "U+0175", "U+0177", "U+00FF", "U+017A",
      "U+017C", "U+017E", "U+0253", "U+0183", "U+0185", "U+0254", "U+0188",
      "U+0256", "U+0257", "U+018C", "U+01DD", "U+0259", "U+025B", "U+0192",
      "U+0260", "U+0263", "U+0269", "U+0268", "U+0199", "U+026F", "U+0272",
      "U+0275", "U+01A1", "U+01A3", "U+01A5", "U+0280", "U+01A8", "U+0283",
      "U+01AD", "U+0288", "U+01B0", "U+028A", "U+028B", "U+01B4", "U+01B6",
      "U+0292", "U+01B9", "U+01BD", "U+01C6", "U+01C6", "U+01C9", "U+01C9",
      "U+01CC", "U+01CC", "U+01CE", "U+01D0", "U+01D2", "U+01D4", "U+01D6",
      "U+01D8", "U+01DA", "U+01DC", "U+01DF", "U+01E1", "U+01E3", "U+01E5",
      "U+01E7", "U+01E9", "U+01EB", "U+01ED", "U+01EF", "U+01F3", "U+01F3",
      "U+01F5", "U+0195", "U+01BF", "U+01F9", "U+01FB", "U+01FD", "U+01FF",
      "U+0201", "U+0203", "U+0205", "U+0207", "U+0209", "U+020B", "U+020D",
      "U+020F", "U+0211", "U+0213", "U+0215", "U+0217", "U+0219", "U+021B",
      "U+021D", "U+021F", "U+019E", "U+0223", "U+0225", "U+0227", "U+0229",
      "U+022B", "U+022D", "U+022F", "U+0231", "U+0233", "U+2C65", "U+023C",
      "U+019A", "U+2C66", "U+0242", "U+0180", "U+0289", "U+028C", "U+0247",
      "U+0249", "U+024B", "U+024D", "U+024F", "U+0371", "U+0373", "U+0377",
      "U+03F3", "U+03AC", "U+03AD", "U+03AE", "U+03AF", "U+03CC", "U+03CD",
      "U+03CE", "U+03B1", "U+03B2", "U+03B3", "U+03B4", "U+03B5", "U+03B6",
      "U+03B7", "U+03B8", "U+03B9", "U+03BA", "U+03BB", "U+03BC", "U+03BD",
      "U+03BE", "U+03BF", "U+03C0", "U+03C1", "U+03C3", "U+03C4", "U+03C5",
      "U+03C6", "U+03C7", "U+03C8", "U+03C9", "U+03CA", "U+03CB", "U+03D7",
      "U+03D9", "U+03DB", "U+03DD", "U+03DF", "U+03E1", "U+03E3", "U+03E5",
      "U+03E7", "U+03E9", "U+03EB", "U+03ED", "U+03EF", "U+03B8", "U+03F8",
      "U+03F2", "U+03FB", "U+037B", "U+037C", "U+037D", "U+0450", "U+0451",
      "U+0452", "U+0453", "U+0454", "U+0455", "U+0456", "U+0457", "U+0458",
      "U+0459", "U+045A", "U+045B", "U+045C", "U+045D", "U+045E", "U+045F",
      "U+0430", "U+0431", "U+0432", "U+0433", "U+0434", "U+0435", "U+0436",
      "U+0437", "U+0438", "U+0439", "U+043A", "U+043B", "U+043C", "U+043D",
      "U+043E", "U+043F", "U+0440", "U+0441", "U+0442", "U+0443", "U+0444",
      "U+0445", "U+0446", "U+0447", "U+0448", "U+0449", "U+044A", "U+044B",
      "U+044C", "U+044D", "U+044E", "U+044F", "U+0461", "U+0463", "U+0465",
      "U+0467", "U+0469", "U+046B", "U+046D", "U+046F", "U+0471", "U+0473",
      "U+0475", "U+0477", "U+0479", "U+047B", "U+047D", "U+047F", "U+0481",
      "U+048B", "U+048D", "U+048F", "U+0491", "U+0493", "U+0495", "U+0497",
      "U+0499", "U+049B", "U+049D", "U+049F", "U+04A1", "U+04A3", "U+04A5",
      "U+04A7", "U+04A9", "U+04AB", "U+04AD", "U+04AF", "U+04B1", "U+04B3",
      "U+04B5", "U+04B7", "U+04B9", "U+04BB", "U+04BD", "U+04BF", "U+04CF",
      "U+04C2", "U+04C4", "U+04C6", "U+04C8", "U+04CA", "U+04CC", "U+04CE",
      "U+04D1", "U+04D3", "U+04D5", "U+04D7", "U+04D9", "U+04DB", "U+04DD",
      "U+04DF", "U+04E1", "U+04E3", "U+04E5", "U+04E7", "U+04E9", "U+04EB",
      "U+04ED", "U+04EF", "U+04F1", "U+04F3", "U+04F5", "U+04F7", "U+04F9",
      "U+04FB", "U+04FD", "U+04FF", "U+0501", "U+0503", "U+0505", "U+0507",
      "U+0509", "U+050B", "U+050D", "U+050F", "U+0511", "U+0513", "U+0515",
      "U+0517", "U+0519", "U+051B", "U+051D", "U+051F", "U+0521", "U+0523",
      "U+0525", "U+0527", "U+0529", "U+052B", "U+052D", "U+052F", "U+0561",
      "U+0562", "U+0563", "U+0564", "U+0565", "U+0566", "U+0567", "U+0568",
      "U+0569", "U+056A", "U+056B", "U+056C", "U+056D", "U+056E", "U+056F",
      "U+0570", "U+0571", "U+0572", "U+0573", "U+0574", "U+0575", "U+0576",
      "U+0577", "U+0578", "U+0579", "U+057A", "U+057B", "U+057C", "U+057D",
      "U+057E", "U+057F", "U+0580", "U+0581", "U+0582", "U+0583", "U+0584",
      "U+0585", "U+0586", "U+2D00", "U+2D01", "U+2D02", "U+2D03", "U+2D04",
      "U+2D05", "U+2D06", "U+2D07", "U+2D08", "U+2D09", "U+2D0A", "U+2D0B",
      "U+2D0C", "U+2D0D", "U+2D0E", "U+2D0F", "U+2D10", "U+2D11", "U+2D12",
      "U+2D13", "U+2D14", "U+2D15", "U+2D16", "U+2D17", "U+2D18", "U+2D19",
      "U+2D1A", "U+2D1B", "U+2D1C", "U+2D1D", "U+2D1E", "U+2D1F", "U+2D20",
      "U+2D21", "U+2D22", "U+2D23", "U+2D24", "U+2D25", "U+2D27", "U+2D2D",
      "U+AB70", "U+AB71", "U+AB72", "U+AB73", "U+AB74", "U+AB75", "U+AB76",
      "U+AB77", "U+AB78", "U+AB79", "U+AB7A", "U+AB7B", "U+AB7C", "U+AB7D",
      "U+AB7E", "U+AB7F", "U+AB80", "U+AB81", "U+AB82", "U+AB83", "U+AB84",
      "U+AB85", "U+AB86", "U+AB87", "U+AB88", "U+AB89", "U+AB8A", "U+AB8B",
      "U+AB8C", "U+AB8D", "U+AB8E", "U+AB8F", "U+AB90", "U+AB91", "U+AB92",
      "U+AB93", "U+AB94", "U+AB95", "U+AB96", "U+AB97", "U+AB98", "U+AB99",
      "U+AB9A", "U+AB9B", "U+AB9C", "U+AB9D", "U+AB9E", "U+AB9F", "U+ABA0",
      "U+ABA1", "U+ABA2", "U+ABA3", "U+ABA4", "U+ABA5", "U+ABA6", "U+ABA7",
      "U+ABA8", "U+ABA9", "U+ABAA", "U+ABAB", "U+ABAC", "U+ABAD", "U+ABAE",
      "U+ABAF", "U+ABB0", "U+ABB1", "U+ABB2", "U+ABB3", "U+ABB4", "U+ABB5",
      "U+ABB6", "U+ABB7", "U+ABB8", "U+ABB9", "U+ABBA", "U+ABBB", "U+ABBC",
      "U+ABBD", "U+ABBE", "U+ABBF", "U+13F8", "U+13F9", "U+13FA", "U+13FB",
      "U+13FC", "U+13FD", "U+10D0", "U+10D1", "U+10D2", "U+10D3", "U+10D4",
      "U+10D5", "U+10D6", "U+10D7", "U+10D8", "U+10D9", "U+10DA", "U+10DB",
      "U+10DC", "U+10DD", "U+10DE", "U+10DF", "U+10E0", "U+10E1", "U+10E2",
      "U+10E3", "U+10E4", "U+10E5", "U+10E6", "U+10E7", "U+10E8", "U+10E9",
      "U+10EA", "U+10EB", "U+10EC", "U+10ED", "U+10EE", "U+10EF", "U+10F0",
      "U+10F1", "U+10F2", "U+10F3", "U+10F4", "U+10F5", "U+10F6", "U+10F7",
      "U+10F8", "U+10F9", "U+10FA", "U+10FD", "U+10FE", "U+10FF", "U+1E01",
      "U+1E03", "U+1E05", "U+1E07", "U+1E09", "U+1E0B", "U+1E0D", "U+1E0F",
      "U+1E11", "U+1E13", "U+1E15", "U+1E17", "U+1E19", "U+1E1B", "U+1E1D",
      "U+1E1F", "U+1E21", "U+1E23", "U+1E25", "U+1E27", "U+1E29", "U+1E2B",
      "U+1E2D", "U+1E2F", "U+1E31", "U+1E33", "U+1E35", "U+1E37", "U+1E39",
      "U+1E3B", "U+1E3D", "U+1E3F", "U+1E41", "U+1E43", "U+1E45", "U+1E47",
      "U+1E49", "U+1E4B", "U+1E4D", "U+1E4F", "U+1E51", "U+1E53", "U+1E55",
      "U+1E57", "U+1E59", "U+1E5B", "U+1E5D", "U+1E5F", "U+1E61", "U+1E63",
      "U+1E65", "U+1E67", "U+1E69", "U+1E6B", "U+1E6D", "U+1E6F", "U+1E71",
      "U+1E73", "U+1E75", "U+1E77", "U+1E79", "U+1E7B", "U+1E7D", "U+1E7F",
      "U+1E81", "U+1E83", "U+1E85", "U+1E87", "U+1E89", "U+1E8B", "U+1E8D",
      "U+1E8F", "U+1E91", "U+1E93", "U+1E95", "U+00DF", "U+1EA1", "U+1EA3",
      "U+1EA5", "U+1EA7", "U+1EA9", "U+1EAB", "U+1EAD", "U+1EAF", "U+1EB1",
      "U+1EB3", "U+1EB5", "U+1EB7", "U+1EB9", "U+1EBB", "U+1EBD", "U+1EBF",
      "U+1EC1", "U+1EC3", "U+1EC5", "U+1EC7", "U+1EC9", "U+1ECB", "U+1ECD",
      "U+1ECF", "U+1ED1", "U+1ED3", "U+1ED5", "U+1ED7", "U+1ED9", "U+1EDB",
      "U+1EDD", "U+1EDF", "U+1EE1", "U+1EE3", "U+1EE5", "U+1EE7", "U+1EE9",
      "U+1EEB", "U+1EED", "U+1EEF", "U+1EF1", "U+1EF3", "U+1EF5", "U+1EF7",
      "U+1EF9", "U+1EFB", "U+1EFD", "U+1EFF", "U+1F00", "U+1F01", "U+1F02",
      "U+1F03", "U+1F04", "U+1F05", "U+1F06", "U+1F07", "U+1F10", "U+1F11",
      "U+1F12", "U+1F13", "U+1F14", "U+1F15", "U+1F20", "U+1F21", "U+1F22",
      "U+1F23", "U+1F24", "U+1F25", "U+1F26", "U+1F27", "U+1F30", "U+1F31",
      "U+1F32", "U+1F33", "U+1F34", "U+1F35", "U+1F36", "U+1F37", "U+1F40",
      "U+1F41", "U+1F42", "U+1F43", "U+1F44", "U+1F45", "U+1F51", "U+1F53",
      "U+1F55", "U+1F57", "U+1F60", "U+1F61", "U+1F62", "U+1F63", "U+1F64",
      "U+1F65", "U+1F66", "U+1F67", "U+1F80", "U+1F81", "U+1F82", "U+1F83",
      "U+1F84", "U+1F85", "U+1F86", "U+1F87", "U+1F90", "U+1F91", "U+1F92",
      "U+1F93", "U+1F94", "U+1F95", "U+1F96", "U+1F97", "U+1FA0", "U+1FA1",
      "U+1FA2", "U+1FA3", "U+1FA4", "U+1FA5", "U+1FA6", "U+1FA7", "U+1FB0",
      "U+1FB1", "U+1F70", "U+1F71", "U+1FB3", "U+1F72", "U+1F73", "U+1F74",
      "U+1F75", "U+1FC3", "U+1FD0", "U+1FD1", "U+1F76", "U+1F77", "U+1FE0",
      "U+1FE1", "U+1F7A", "U+1F7B", "U+1FE5", "U+1F78", "U+1F79", "U+1F7C",
      "U+1F7D", "U+1FF3", "U+03C9", "k", "U+00E5", "U+214E", "U+2170",
      "U+2171", "U+2172", "U+2173", "U+2174", "U+2175", "U+2176", "U+2177",
      "U+2178", "U+2179", "U+217A", "U+217B", "U+217C", "U+217D", "U+217E",
      "U+217F", "U+2184", "U+24D0", "U+24D1", "U+24D2", "U+24D3", "U+24D4",
      "U+24D5", "U+24D6", "U+24D7", "U+24D8", "U+24D9", "U+24DA", "U+24DB",
      "U+24DC", "U+24DD", "U+24DE", "U+24DF", "U+24E0", "U+24E1", "U+24E2",
      "U+24E3", "U+24E4", "U+24E5", "U+24E6", "U+24E7", "U+24E8", "U+24E9",
      "U+2C30", "U+2C31", "U+2C32", "U+2C33", "U+2C34", "U+2C35", "U+2C36",
      "U+2C37", "U+2C38", "U+2C39", "U+2C3A", "U+2C3B", "U+2C3C", "U+2C3D",
      "U+2C3E", "U+2C3F", "U+2C40", "U+2C41", "U+2C42", "U+2C43", "U+2C44",
      "U+2C45", "U+2C46", "U+2C47", "U+2C48", "U+2C49", "U+2C4A", "U+2C4B",
      "U+2C4C", "U+2C4D", "U+2C4E", "U+2C4F", "U+2C50", "U+2C51", "U+2C52",
      "U+2C53", "U+2C54", "U+2C55", "U+2C56", "U+2C57", "U+2C58", "U+2C59",
      "U+2C5A", "U+2C5B", "U+2C5C", "U+2C5D", "U+2C5E", "U+2C5F", "U+2C61",
      "U+026B", "U+1D7D", "U+027D", "U+2C68", "U+2C6A", "U+2C6C", "U+0251",
      "U+0271", "U+0250", "U+0252", "U+2C73", "U+2C76", "U+023F", "U+0240",
      "U+2C81", "U+2C83", "U+2C85", "U+2C87", "U+2C89", "U+2C8B", "U+2C8D",
      "U+2C8F", "U+2C91", "U+2C93", "U+2C95", "U+2C97", "U+2C99", "U+2C9B",
      "U+2C9D", "U+2C9F", "U+2CA1", "U+2CA3", "U+2CA5", "U+2CA7", "U+2CA9",
      "U+2CAB", "U+2CAD", "U+2CAF", "U+2CB1", "U+2CB3", "U+2CB5", "U+2CB7",
      "U+2CB9", "U+2CBB", "U+2CBD", "U+2CBF", "U+2CC1", "U+2CC3", "U+2CC5",
      "U+2CC7", "U+2CC9", "U+2CCB", "U+2CCD", "U+2CCF", "U+2CD1", "U+2CD3",
      "U+2CD5", "U+2CD7", "U+2CD9", "U+2CDB", "U+2CDD", "U+2CDF", "U+2CE1",
      "U+2CE3", "U+2CEC", "U+2CEE", "U+2CF3", "U+A641", "U+A643", "U+A645",
      "U+A647", "U+A649", "U+A64B", "U+A64D", "U+A64F", "U+A651", "U+A653",
      "U+A655", "U+A657", "U+A659", "U+A65B", "U+A65D", "U+A65F", "U+A661",
      "U+A663", "U+A665", "U+A667", "U+A669", "U+A66B", "U+A66D", "U+A681",
      "U+A683", "U+A685", "U+A687", "U+A689", "U+A68B", "U+A68D", "U+A68F",
      "U+A691", "U+A693", "U+A695", "U+A697", "U+A699", "U+A69B", "U+A723",
      "U+A725", "U+A727", "U+A729", "U+A72B", "U+A72D", "U+A72F", "U+A733",
      "U+A735", "U+A737", "U+A739", "U+A73B", "U+A73D", "U+A73F", "U+A741",
      "U+A743", "U+A745", "U+A747", "U+A749", "U+A74B", "U+A74D", "U+A74F",
      "U+A751", "U+A753", "U+A755", "U+A757", "U+A759", "U+A75B", "U+A75D",
      "U+A75F", "U+A761", "U+A763", "U+A765", "U+A767", "U+A769", "U+A76B",
      "U+A76D", "U+A76F", "U+A77A", "U+A77C", "U+1D79", "U+A77F", "U+A781",
      "U+A783", "U+A785", "U+A787", "U+A78C", "U+0265", "U+A791", "U+A793",
      "U+A797", "U+A799", "U+A79B", "U+A79D", "U+A79F", "U+A7A1", "U+A7A3",
      "U+A7A5", "U+A7A7", "U+A7A9", "U+0266", "U+025C", "U+0261", "U+026C",
      "U+026A", "U+029E", "U+0287", "U+029D", "U+AB53", "U+A7B5", "U+A7B7",
      "U+A7B9", "U+A7BB", "U+A7BD", "U+A7BF", "U+A7C1", "U+A7C3", "U+A794",
      "U+0282", "U+1D8E", "U+A7C8", "U+A7CA", "U+A7D1", "U+A7D7", "U+A7D9",
      "U+A7F6", "U+FF41", "U+FF42", "U+FF43", "U+FF44", "U+FF45", "U+FF46",
      "U+FF47", "U+FF48", "U+FF49", "U+FF4A", "U+FF4B", "U+FF4C", "U+FF4D",
      "U+FF4E", "U+FF4F", "U+FF50", "U+FF51", "U+FF52", "U+FF53", "U+FF54",
      "U+FF55", "U+FF56", "U+FF57", "U+FF58", "U+FF59", "U+FF5A", "U+10428",
      "U+10429", "U+1042A", "U+1042B", "U+1042C", "U+1042D", "U+1042E",
      "U+1042F", "U+10430", "U+10431", "U+10432", "U+10433", "U+10434",
      "U+10435", "U+10436", "U+10437", "U+10438", "U+10439", "U+1043A",
      "U+1043B", "U+1043C", "U+1043D", "U+1043E", "U+1043F", "U+10440",
      "U+10441", "U+10442", "U+10443", "U+10444", "U+10445", "U+10446",
      "U+10447", "U+10448", "U+10449", "U+1044A", "U+1044B", "U+1044C",
      "U+1044D", "U+1044E", "U+1044F", "U+104D8", "U+104D9", "U+104DA",
      "U+104DB", "U+104DC", "U+104DD", "U+104DE", "U+104DF", "U+104E0",
      "U+104E1", "U+104E2", "U+104E3", "U+104E4", "U+104E5", "U+104E6",
      "U+104E7", "U+104E8", "U+104E9", "U+104EA", "U+104EB", "U+104EC",
      "U+104ED", "U+104EE", "U+104EF", "U+104F0", "U+104F1", "U+104F2",
      "U+104F3", "U+104F4", "U+104F5", "U+104F6", "U+104F7", "U+104F8",
      "U+104F9", "U+104FA", "U+104FB", "U+10597", "U+10598", "U+10599",
      "U+1059A", "U+1059B", "U+1059C", "U+1059D", "U+1059E", "U+1059F",
      "U+105A0", "U+105A1", "U+105A3", "U+105A4", "U+105A5", "U+105A6",
      "U+105A7", "U+105A8", "U+105A9", "U+105AA", "U+105AB", "U+105AC",
      "U+105AD", "U+105AE", "U+105AF", "U+105B0", "U+105B1", "U+105B3",
      "U+105B4", "U+105B5", "U+105B6", "U+105B7", "U+105B8", "U+105B9",
      "U+105BB", "U+105BC", "U+10CC0", "U+10CC1", "U+10CC2", "U+10CC3",
      "U+10CC4", "U+10CC5", "U+10CC6", "U+10CC7", "U+10CC8", "U+10CC9",
      "U+10CCA", "U+10CCB", "U+10CCC", "U+10CCD", "U+10CCE", "U+10CCF",
      "U+10CD0", "U+10CD1", "U+10CD2", "U+10CD3", "U+10CD4", "U+10CD5",
      "U+10CD6", "U+10CD7", "U+10CD8", "U+10CD9", "U+10CDA", "U+10CDB",
      "U+10CDC", "U+10CDD", "U+10CDE", "U+10CDF", "U+10CE0", "U+10CE1",
      "U+10CE2", "U+10CE3", "U+10CE4", "U+10CE5", "U+10CE6", "U+10CE7",
      "U+10CE8", "U+10CE9", "U+10CEA", "U+10CEB", "U+10CEC", "U+10CED",
      "U+10CEE", "U+10CEF", "U+10CF0", "U+10CF1", "U+10CF2", "U+118C0",
      "U+118C1", "U+118C2", "U+118C3", "U+118C4", "U+118C5", "U+118C6",
      "U+118C7", "U+118C8", "U+118C9", "U+118CA", "U+118CB", "U+118CC",
      "U+118CD", "U+118CE", "U+118CF", "U+118D0", "U+118D1", "U+118D2",
      "U+118D3", "U+118D4", "U+118D5", "U+118D6", "U+118D7", "U+118D8",
      "U+118D9", "U+118DA", "U+118DB", "U+118DC", "U+118DD", "U+118DE",
      "U+118DF", "U+16E60", "U+16E61", "U+16E62", "U+16E63", "U+16E64",
      "U+16E65", "U+16E66", "U+16E67", "U+16E68", "U+16E69", "U+16E6A",
      "U+16E6B", "U+16E6C", "U+16E6D", "U+16E6E", "U+16E6F", "U+16E70",
      "U+16E71", "U+16E72", "U+16E73", "U+16E74", "U+16E75", "U+16E76",
      "U+16E77", "U+16E78", "U+16E79", "U+16E7A", "U+16E7B", "U+16E7C",
      "U+16E7D", "U+16E7E", "U+16E7F", "U+1E922", "U+1E923", "U+1E924",
      "U+1E925", "U+1E926", "U+1E927", "U+1E928", "U+1E929", "U+1E92A",
      "U+1E92B", "U+1E92C", "U+1E92D", "U+1E92E", "U+1E92F", "U+1E930",
      "U+1E931", "U+1E932", "U+1E933", "U+1E934", "U+1E935", "U+1E936",
      "U+1E937", "U+1E938", "U+1E939", "U+1E93A", "U+1E93B", "U+1E93C",
      "U+1E93D", "U+1E93E", "U+1E93F", "U+1E940", "U+1E941", "U+1E942",
      "U+1E943">>

UpperRuneSet == {UpperRunes[i] : i \in 1..Len(UpperRunes)}

\* unicode.ToLower: the lower-case letter of a capital, of ASCII or not, and
\* any other character itself
LowerChar(c) ==
    IF c \in UpperRuneSet
    THEN LowerRunes[CHOOSE i \in 1..Len(UpperRunes) : UpperRunes[i] = c]
    ELSE LowerASCII(c)

\* strings.ToLower
ToLower(s) == [i \in 1..Len(s) |-> LowerChar(s[i])]

\* strings.Contains(s, sub)
Contains(s, sub) ==
    \E i \in 0..(Len(s) - Len(sub)) : SubSeq(s, i + 1, i + Len(sub)) = sub

\* strings.ReplaceAll(s, c, "") for a one-character c
RemoveChar(s, c) == SelectSeq(s, LAMBDA x : x # c)

\* strings.ReplaceAll(s, a, b) for one-character a and b
ReplaceChar(s, a, b) == [i \in 1..Len(s) |-> IF s[i] = a THEN b ELSE s[i]]

RECURSIVE TrimLeft(_, _)
TrimLeft(s, cut) ==
    IF s # <<>> /\ Head(s) \in cut THEN TrimLeft(Tail(s), cut) ELSE s

RECURSIVE TrimRight(_, _)
TrimRight(s, cut) ==
    IF s # <<>> /\ s[Len(s)] \in cut
    THEN TrimRight(SubSeq(s, 1, Len(s) - 1), cut)
    ELSE s

\* strings.TrimSpace
TrimSpace(s) == TrimRight(TrimLeft(s, WhiteSpace), WhiteSpace)

\* strings.Trim(s, cutset)
Trim(s, cut) == TrimRight(TrimLeft(s, cut), cut)

\* strings.Split(s, sep) for a one-character sep: the parts between separators
RECURSIVE Split(_, _)
Split(s, sep) ==
    IF \E i \in 1..Len(s) : s[i] = sep
    THEN LET k == CHOOSE i \in 1..Len(s) :
                      s[i] = sep /\ \A j \in 1..(i - 1) : s[j] # sep
         IN  <<SubSeq(s, 1, k - 1)>> \o Split(SubSeq(s, k + 1, Len(s)), sep)
    ELSE <<s>>

(***************************************************************************)
(* Natural numbers of any size, for the 64-bit integers and the float64    *)
(* mantissas of the code: the limbs in base 2^15, lowest first, no zero    *)
(* limb at the top                                                         *)
(***************************************************************************)
Base == 32768

LimbBits == 15

BNorm(a) ==
    LET nz == {i \in 1..Len(a) : a[i] # 0}
    IN  IF nz = {} THEN <<>>
        ELSE SubSeq(a, 1, CHOOSE i \in nz : \A j \in nz : j <= i)

RECURSIVE BFromInt(_)
BFromInt(n) == IF n = 0 THEN <<>> ELSE <<n % Base>> \o BFromInt(n \div Base)

Limb(a, i) == IF i <= Len(a) THEN a[i] ELSE 0

\* -1, 0 or 1 as a is below, equal to or above b
BCmp(a, b) ==
    IF Len(a) # Len(b) THEN (IF Len(a) < Len(b) THEN 0 - 1 ELSE 1)
    ELSE LET d == {i \in 1..Len(a) : a[i] # b[i]}
         IN  IF d = {} THEN 0
             ELSE LET k == CHOOSE i \in d : \A j \in d : j <= i
                  IN  IF a[k] < b[k] THEN 0 - 1 ELSE 1

\* The limb sums s of two numbers, with cin (0 or 1) added at the bottom,
\* hand a carry out of limb i: a limb at or below i overflows and every limb
\* between is full
Carry(s, cin, i) ==
    \/ cin = 1 /\ \A h \in 1..i : s[h] >= Base - 1
    \/ \E j \in 1..i : s[j] >= Base /\ \A h \in (j + 1)..i : s[h] >= Base - 1

\* The number whose limb sums are s, cin added
BCarried(s, cin) ==
    BNorm([i \in 1..(Len(s) + 1) |->
              IF i <= Len(s)
              THEN (s[i] + (IF Carry(s, cin, i - 1) THEN 1 ELSE 0)) % Base
              ELSE IF Carry(s, cin, Len(s)) THEN 1 ELSE 0])

\* a + b + cin, for cin 0 or 1
BAddCarry(a, b, cin) ==
    IF a = <<>> /\ b = <<>> THEN BFromInt(cin)
    ELSE BCarried([i \in 1..(IF Len(a) > Len(b) THEN Len(a) ELSE Len(b)) |->
                      Limb(a, i) + Limb(b, i)], cin)

BAdd(a, b) == BAddCarry(a, b, 0)

\* The limb differences d of two numbers borrow out of limb i
Borrow(d, i) == \E j \in 1..i : d[j] < 0 /\ \A h \in (j + 1)..i : d[h] <= 0

BBorrowed(d) ==
    BNorm([i \in 1..Len(d) |->
              (d[i] - (IF Borrow(d, i - 1) THEN 1 ELSE 0) + Base) % Base])

\* a - b, for a >= b
BSub(a, b) ==
    IF b = <<>> THEN a ELSE BBorrowed([i \in 1..Len(a) |-> a[i] - Limb(b, i)])

BShlLimbs(a, n) == IF a = <<>> THEN <<>> ELSE [i \in 1..n |-> 0] \o a

\* a * k, for 0 <= k <= Base
BMulSmall(a, k) ==
    IF a = <<>> THEN <<>>
    ELSE
    BAdd(BNorm([i \in 1..Len(a) |-> (a[i] * k) % Base]),
         BShlLimbs(BNorm([i \in 1..Len(a) |-> (a[i] * k) \div Base]), 1))

\* a times the limbs lo..hi of b, each at its place
RECURSIVE BMulRange(_, _, _, _)
BMulRange(a, b, lo, hi) ==
    IF lo > hi THEN <<>>
    ELSE IF lo = hi THEN BShlLimbs(BMulSmall(a, b[lo]), lo - 1)
    ELSE BAdd(BMulRange(a, b, lo, (lo + hi) \div 2),
              BMulRange(a, b, ((lo + hi) \div 2) + 1, hi))

BMul(a, b) == IF a = <<>> \/ b = <<>> THEN <<>> ELSE BMulRange(a, b, 1, Len(b))

\* a * 2^k
BShl(a, k) == BShlLimbs(BMulSmall(a, 2 ^ (k % LimbBits)), k \div LimbBits)

\* a \div 2^k
BShr(a, k) ==
    IF Len(a) <= k \div LimbBits THEN <<>>
    ELSE BNorm([i \in 1..(Len(a) - (k \div LimbBits)) |->
             (a[(k \div LimbBits) + i] \div (2 ^ (k % LimbBits)))
             + (Limb(a, (k \div LimbBits) + i + 1) % (2 ^ (k % LimbBits)))
               * (2 ^ (LimbBits - (k % LimbBits)))])

\* Bit k of a, bit 0 the lowest
BBit(a, k) == (Limb(a, (k \div LimbBits) + 1) \div (2 ^ (k % LimbBits))) % 2

\* The k lowest bits of a are all 0
BLowZero(a, k) ==
    /\ \A i \in 1..(k \div LimbBits) : Limb(a, i) = 0
    /\ Limb(a, (k \div LimbBits) + 1) % (2 ^ (k % LimbBits)) = 0

RECURSIVE SmallBitLen(_)
SmallBitLen(n) == IF n = 0 THEN 0 ELSE 1 + SmallBitLen(n \div 2)

BBitLen(a) ==
    IF a = <<>> THEN 0 ELSE LimbBits * (Len(a) - 1) + SmallBitLen(a[Len(a)])

RECURSIVE SmallTrailingZeros(_)
SmallTrailingZeros(n) ==
    IF n % 2 = 1 THEN 0 ELSE 1 + SmallTrailingZeros(n \div 2)

\* The number of 0 bits below the lowest 1 bit of a, for a # 0
BTrailingZeros(a) ==
    LET i == CHOOSE j \in 1..Len(a) : a[j] # 0 /\ \A h \in 1..(j - 1) : a[h] = 0
    IN  LimbBits * (i - 1) + SmallTrailingZeros(a[i])

\* a \div 2^k, one more when the bits cut off are above a half, or are a
\* half and either more follows them (sticky) or a \div 2^k is odd
BShrEven(a, k, sticky) ==
    IF k <= 0 THEN a
    ELSE IF BBit(a, k - 1) = 1 /\ (sticky \/ ~BLowZero(a, k - 1) \/ BBit(a, k) = 1)
    THEN BAdd(BShr(a, k), <<1>>)
    ELSE BShr(a, k)

\* Quotient limbs and remainder of the limbs lo..hi of a, with the
\* remainder rem of the limbs above them, by d, for 0 < d < 2 * Base
RECURSIVE BDivSmallRange(_, _, _, _, _)
BDivSmallRange(a, d, lo, hi, rem) ==
    IF lo > hi THEN [q |-> <<>>, r |-> rem]
    ELSE IF lo = hi
    THEN [q |-> <<(rem * Base + a[lo]) \div d>>, r |-> (rem * Base + a[lo]) % d]
    ELSE LET upper == BDivSmallRange(a, d, ((lo + hi) \div 2) + 1, hi, rem)
             lower == BDivSmallRange(a, d, lo, (lo + hi) \div 2, upper.r)
         IN  [q |-> lower.q \o upper.q, r |-> lower.r]

BNormQuotient(res) == [q |-> BNorm(res.q), r |-> res.r]

BDivSmall(a, d) == BNormQuotient(BDivSmallRange(a, d, 1, Len(a), 0))

\* Long division, one bit of a at a time from bit i down: q and r are the
\* quotient and the remainder of the bits above bit i, r2 is r with bit i
\* of a below it
RECURSIVE BDivBits(_, _, _, _, _)
RECURSIVE BDivStep(_, _, _, _, _)
BDivBits(a, b, i, q, r) ==
    IF i < 0 THEN [q |-> q, r |-> r]
    ELSE BDivStep(a, b, i, q, BAddCarry(r, r, BBit(a, i)))

BDivStep(a, b, i, q, r2) ==
    IF Len(q) >= 0 /\ BCmp(r2, b) >= 0
    THEN BDivBits(a, b, i - 1, BAddCarry(q, q, 1), BSub(r2, b))
    ELSE BDivBits(a, b, i - 1, BAddCarry(q, q, 0), r2)

\* The quotient and the remainder of a division by one limb, as numbers
BDivByLimb(res) == [q |-> res.q, r |-> BFromInt(res.r)]

\* Quotient and remainder of a by b, for b # 0
BDivMod(a, b) ==
    IF Len(b) = 1 THEN BDivByLimb(BDivSmall(a, b[1]))
    ELSE IF BBitLen(a) < BBitLen(b) THEN [q |-> <<>>, r |-> a]
    ELSE BDivBits(a, b, BBitLen(a) - BBitLen(b), <<>>,
                  BShr(a, BBitLen(a) - BBitLen(b) + 1))

\* h * h * k, for 0 <= k <= Base
BMulSquare(h, k) == IF h = <<>> THEN <<>> ELSE BMulSmall(BMul(h, h), k)

RECURSIVE BPow10(_)
BPow10(k) ==
    IF k = 0 THEN <<1>>
    ELSE BMulSquare(BPow10(k \div 2), IF k % 2 = 0 THEN 1 ELSE 10)


(***************************************************************************)
(* float64: NaN, an infinity, or the finite value (-1)^neg * m * 2^e with  *)
(* m = 0 and e = 0, or m odd; every operation rounds its exact result to   *)
(* the nearest float64, ties to the even mantissa (IEEE 754)               *)
(***************************************************************************)
FNaN == [k |-> "nan", neg |-> FALSE, m |-> <<>>, e |-> 0]

FInf(neg) == [k |-> "inf", neg |-> neg, m |-> <<>>, e |-> 0]

FZero(neg) == [k |-> "fin", neg |-> neg, m |-> <<>>, e |-> 0]

FIsZero(x) == x.k = "fin" /\ x.m = <<>>

\* m * 2^e with the tz zero bits at the bottom of m moved into the exponent
FStripped(neg, m, e, tz) == [k |-> "fin", neg |-> neg, m |-> BShr(m, tz), e |-> e + tz]

\* The float64 m * 2^e, for a value a float64 holds exactly: infinite from
\* 2^1024 on
FCanon(neg, m, e) ==
    IF m = <<>> THEN FZero(neg)
    ELSE IF BBitLen(m) + e > 1024 THEN FInf(neg)
    ELSE FStripped(neg, m, e, BTrailingZeros(m))

\* The number of bits at the bottom of a mantissa of len bits at exponent e
\* that a float64 has no room for: it keeps 53 bits, fewer below 2^-1022,
\* the lowest worth 2^-1074 at least
FDropped(len, e) ==
    IF len - 53 > 0 - 1074 - e THEN len - 53 ELSE 0 - 1074 - e

\* (q + f) * 2^e with its d lowest bits rounded away
FRoundAt(neg, q, e, sticky, d) ==
    FCanon(neg, BShrEven(q, d, sticky), IF d <= 0 THEN e ELSE e + d)

\* The float64 nearest to (q + f) * 2^e, where 0 <= f < 1 and f # 0 exactly
\* when sticky (q then has 55 bits or more)
FRound(neg, q, e, sticky) == FRoundAt(neg, q, e, sticky, FDropped(BBitLen(q), e))

FNeg(x) == IF x.k = "nan" THEN x ELSE [x EXCEPT !.neg = ~x.neg]

\* x * y
FMul(x, y) ==
    IF x.k = "nan" \/ y.k = "nan" THEN FNaN
    ELSE IF x.k = "inf" \/ y.k = "inf"
    THEN (IF FIsZero(x) \/ FIsZero(y) THEN FNaN ELSE FInf(x.neg # y.neg))
    ELSE FRound(x.neg # y.neg, BMul(x.m, y.m), x.e + y.e, FALSE)

\* The float64 nearest to (dm.q + dm.r / b) * 2^e, dm a quotient of 55
\* bits or more and its remainder
FQuotient(neg, dm, e) == FRound(neg, dm.q, e, dm.r # <<>>)

\* The float64 nearest to a / b * 2^e, a moved up s bits for a quotient of
\* 55 bits or more
FRatioAt(neg, a, b, e, s) == FQuotient(neg, BDivMod(BShl(a, s), b), e - s)

\* The float64 nearest to a / b * 2^e, for a # 0 and b # 0
FRatio(neg, a, b, e) ==
    FRatioAt(neg, a, b, e,
             IF BBitLen(a) - BBitLen(b) < 56 THEN 56 - (BBitLen(a) - BBitLen(b)) ELSE 0)

\* x / y
FDiv(x, y) ==
    IF x.k = "nan" \/ y.k = "nan" THEN FNaN
    ELSE IF x.k = "inf"
    THEN (IF y.k = "inf" THEN FNaN ELSE FInf(x.neg # y.neg))
    ELSE IF y.k = "inf" THEN FZero(x.neg # y.neg)
    ELSE IF FIsZero(y)
    THEN (IF FIsZero(x) THEN FNaN ELSE FInf(x.neg # y.neg))
    ELSE IF FIsZero(x) THEN FZero(x.neg # y.neg)
    ELSE FRatio(x.neg # y.neg, x.m, y.m, x.e - y.e)

\* (-1)^xneg * a + (-1)^yneg * b, times 2^e
FAddAligned(xneg, a, yneg, b, e) ==
    FRound(IF xneg = yneg THEN xneg
           ELSE IF BCmp(a, b) = 0 THEN FALSE
           ELSE IF BCmp(a, b) > 0 THEN xneg ELSE yneg,
           IF xneg = yneg THEN BAdd(a, b)
           ELSE IF BCmp(a, b) >= 0 THEN BSub(a, b) ELSE BSub(b, a),
           e, FALSE)

\* x + y for finite x and y, e the smaller of their exponents
FAddAt(x, y, e) ==
    FAddAligned(x.neg, BShl(x.m, x.e - e), y.neg, BShl(y.m, y.e - e), e)

\* The highest bit of x is more than 56 binary places above that of y
FFarAbove(x, y) == (BBitLen(x.m) + x.e) - (BBitLen(y.m) + y.e) > 56

\* x + y: an operand more than 56 binary places below the other does not
\* change it
FAdd(x, y) ==
    IF x.k = "nan" \/ y.k = "nan" THEN FNaN
    ELSE IF x.k = "inf"
    THEN (IF y.k = "inf" /\ x.neg # y.neg THEN FNaN ELSE x)
    ELSE IF y.k = "inf" THEN y
    ELSE IF FIsZero(x) /\ FIsZero(y) THEN FZero(x.neg /\ y.neg)
    ELSE IF FIsZero(y) THEN x
    ELSE IF FIsZero(x) THEN y
    ELSE IF FFarAbove(x, y) THEN x
    ELSE IF FFarAbove(y, x) THEN y
    ELSE FAddAt(x, y, IF x.e < y.e THEN x.e ELSE y.e)

\* x - y
FSub(x, y) == FAdd(x, FNeg(y))

\* The product of finite x and y, neither of them 0, not rounded
FExactMul(x, y) ==
    [k |-> "fin", neg |-> x.neg # y.neg, m |-> BMul(x.m, y.m), e |-> x.e + y.e]

\* x * y + z rounded once (a fused multiply-add)
FMA(x, y, z) ==
    IF x.k # "fin" \/ y.k # "fin" THEN FAdd(FMul(x, y), z)
    ELSE IF z.k # "fin" THEN z
    ELSE IF FIsZero(x) \/ FIsZero(y) THEN FAdd(FMul(x, y), z)
    ELSE IF FIsZero(z) THEN FMul(x, y)
    ELSE FAddAt(FExactMul(x, y), z, IF x.e + y.e < z.e THEN x.e + y.e ELSE z.e)

\* -1, 0 or 1 as |x| is below, equal to or above |y|, for finite x and y,
\* e the smaller of their exponents
FCmpAt(x, y, e) ==
    IF BBitLen(x.m) + x.e # BBitLen(y.m) + y.e
    THEN (IF BBitLen(x.m) + x.e < BBitLen(y.m) + y.e THEN 0 - 1 ELSE 1)
    ELSE BCmp(BShl(x.m, x.e - e), BShl(y.m, y.e - e))

FCmpMag(x, y) ==
    IF x.m = <<>> \/ y.m = <<>>
    THEN (IF x.m = y.m THEN 0 ELSE IF x.m = <<>> THEN 0 - 1 ELSE 1)
    ELSE FCmpAt(x, y, IF x.e < y.e THEN x.e ELSE y.e)

\* x < y
FLess(x, y) ==
    IF x.k = "nan" \/ y.k = "nan" THEN FALSE
    ELSE IF x.k = "inf" THEN x.neg /\ ~(y.k = "inf" /\ y.neg)
    ELSE IF y.k = "inf" THEN ~y.neg
    ELSE IF FIsZero(x) /\ FIsZero(y) THEN FALSE
    ELSE IF x.neg # y.neg THEN x.neg
    ELSE IF x.neg THEN FCmpMag(y, x) < 0
    ELSE FCmpMag(x, y) < 0

\* math.Round(x): the nearest integer, halves away from zero; NaN, the
\* infinities and the zeros are returned as they are
MathRound(x) ==
    IF x.k # "fin" \/ x.e >= 0 THEN x
    ELSE FCanon(x.neg,
                IF BBit(x.m, 0 - x.e - 1) = 1
                THEN BAdd(BShr(x.m, 0 - x.e), <<1>>)
                ELSE BShr(x.m, 0 - x.e),
                0)


(***************************************************************************)
(* strconv.ParseFloat(s, 64)                                               *)
(***************************************************************************)
IsHexLetter(c) == LowerASCII(c) \in {"a", "b", "c", "d", "e", "f"}

HexVal(c) ==
    IF IsDigit(c) THEN DigitVal(c)
    ELSE 9 + (CHOOSE i \in 1..6 : LowerCase[i] = LowerASCII(c))

Unsigned(s) == IF s # <<>> /\ Head(s) \in {"+", "-"} THEN Tail(s) ELSE s

\* s with its ASCII capitals in lower case
LowerBytes(s) == [i \in 1..Len(s) |-> LowerASCII(s[i])]

\* special: "inf" or "infinity" after an optional sign, or "nan", in any
\* letter case
IsSpecialFloat(s) ==
    \/ LowerBytes(Unsigned(s)) \in {<<"i", "n", "f">>,
                                    <<"i", "n", "f", "i", "n", "i", "t", "y">>}
    \/ LowerBytes(s) = <<"n", "a", "n">>

SpecialFloat(s) ==
    IF LowerBytes(s) = <<"n", "a", "n">> THEN FNaN ELSE FInf(Head(s) = "-")

\* readFloat, the mantissa: digits, underscores and one point, from s[st.i]
\* on.  D is the integer the digits read so far spell without their leading
\* zeros, nd the number of those digits, dp the place of the point
RECURSIVE ReadMantissa(_, _, _)
ReadMantissa(s, base, st) ==
    IF st.i > Len(s) THEN st
    ELSE IF s[st.i] = "_"
    THEN ReadMantissa(s, base, [st EXCEPT !.i = @ + 1, !.us = TRUE])
    ELSE IF s[st.i] = "." /\ ~st.sawdot
    THEN ReadMantissa(s, base,
             [st EXCEPT !.i = @ + 1, !.sawdot = TRUE, !.dp = st.nd])
    ELSE IF s[st.i] = "0" /\ st.nd = 0
    THEN ReadMantissa(s, base,
             [st EXCEPT !.i = @ + 1, !.sawdigits = TRUE, !.dp = @ - 1])
    ELSE IF IsDigit(s[st.i]) \/ (base = 16 /\ IsHexLetter(s[st.i]))
    THEN ReadMantissa(s, base,
             [st EXCEPT !.i = @ + 1, !.sawdigits = TRUE, !.nd = @ + 1,
                        !.D = BAdd(BMulSmall(@, base), BFromInt(HexVal(s[st.i])))])
    ELSE st

\* readFloat, the digits of the exponent: e grows while below 10000
RECURSIVE ReadExponent(_, _, _)
ReadExponent(s, i, acc) ==
    IF i <= Len(s) /\ (IsDigit(s[i]) \/ s[i] = "_")
    THEN ReadExponent(s, i + 1,
             IF s[i] = "_" THEN [acc EXCEPT !.us = TRUE]
             ELSE IF acc.e < 10000 THEN [acc EXCEPT !.e = 10 * @ + DigitVal(s[i])]
             ELSE acc)
    ELSE [i |-> i, e |-> acc.e, us |-> acc.us]

RECURSIVE UnderscoreScan(_, _, _, _)
UnderscoreScan(t, i, saw, hex) ==
    IF i > Len(t) THEN saw # "_"
    ELSE IF IsDigit(t[i]) \/ (hex /\ IsHexLetter(t[i]))
    THEN UnderscoreScan(t, i + 1, "0", hex)
    ELSE IF t[i] = "_" THEN saw = "0" /\ UnderscoreScan(t, i + 1, "_", hex)
    ELSE saw # "_" /\ UnderscoreScan(t, i + 1, "!", hex)

\* t begins with the prefix of a base: "0b", "0o" or "0x"
HasBasePrefix(t) == Len(t) >= 2 /\ t[1] = "0" /\ LowerASCII(t[2]) \in {"b", "o", "x"}

UnderscoreOKFrom(t) ==
    UnderscoreScan(t, IF HasBasePrefix(t) THEN 3 ELSE 1,
                   IF HasBasePrefix(t) THEN "0" ELSE "^",
                   HasBasePrefix(t) /\ LowerASCII(t[2]) = "x")

\* underscoreOK: every underscore stands between two digits, or between
\* the base prefix and a digit
UnderscoreOK(s) == UnderscoreOKFrom(Unsigned(s))

\* The index of the first digit of an exponent whose letter is s[i]
ExponentStart(s, i) ==
    IF i + 1 <= Len(s) /\ s[i + 1] \in {"+", "-"} THEN i + 2 ELSE i + 1

\* readFloat, its result: the mantissa m read and, when hasExp, the
\* exponent ex read from s[j] on; the value read is (-1)^neg * D *
\* 10^(dp - nd), or D * 2^(dp - 4 * nd) in base 16
ReadFloatEnd(s, hex, m, hasExp, j, ex) ==
    [ok  |-> /\ m.sawdigits
             /\ hasExp => (j <= Len(s) /\ IsDigit(s[j]))
             /\ hex => hasExp
             /\ (m.us \/ (hasExp /\ ex.us)) => UnderscoreOK(s)
             /\ (IF hasExp THEN ex.i ELSE m.i) > Len(s),
     neg |-> s # <<>> /\ Head(s) = "-",
     hex |-> hex,
     D   |-> m.D,
     nd  |-> m.nd,
     dp  |-> (IF hex THEN 4 ELSE 1) * (IF m.sawdot THEN m.dp ELSE m.nd)
             + (IF ~hasExp THEN 0
                ELSE IF s[j - 1] = "-" THEN 0 - ex.e ELSE ex.e)]

\* readFloat after the mantissa: "e" in base 10 or "p" in base 16 begins
\* the exponent
ReadFloatExp(s, hex, m, hasExp) ==
    ReadFloatEnd(s, hex, m, hasExp, ExponentStart(s, m.i),
                 IF hasExp
                 THEN ReadExponent(s, ExponentStart(s, m.i), [e |-> 0, us |-> FALSE])
                 ELSE [i |-> m.i, e |-> 0, us |-> FALSE])

ReadFloatMantissa(s, hex, m) ==
    ReadFloatExp(s, hex, m,
                 m.i <= Len(s) /\ LowerASCII(s[m.i]) = (IF hex THEN "p" ELSE "e"))

\* readFloat from s[i], after the sign: "0x" before two characters or more
\* sets base 16
ReadFloatFrom(s, i, hex) ==
    ReadFloatMantissa(s, hex,
        ReadMantissa(s, IF hex THEN 16 ELSE 10,
            [i |-> IF hex THEN i + 2 ELSE i, D |-> <<>>, nd |-> 0, dp |-> 0,
             sawdot |-> FALSE, sawdigits |-> FALSE, us |-> FALSE]))

ReadFloatSigned(s, i) ==
    ReadFloatFrom(s, i, i + 2 <= Len(s) /\ s[i] = "0" /\ LowerASCII(s[i + 1]) = "x")

\* readFloat on the whole of s
ReadFloat(s) ==
    ReadFloatSigned(s, IF s # <<>> /\ Head(s) \in {"+", "-"} THEN 2 ELSE 1)

\* The float64 nearest to D * 10^(dp - nd), D having nd digits: infinite
\* from 10^310 on, zero below 10^-331
DecimalFloat(neg, D, nd, dp) ==
    IF D = <<>> THEN FZero(neg)
    ELSE IF dp > 310 THEN FInf(neg)
    ELSE IF dp < 0 - 330 THEN FZero(neg)
    ELSE IF dp >= nd THEN FRound(neg, BMul(D, BPow10(dp - nd)), 0, FALSE)
    ELSE FRatio(neg, D, BPow10(nd - dp), 0)

\* The float64 of what readFloat read, 0 on a syntax error
FloatRead(rf) ==
    IF ~rf.ok THEN FZero(FALSE)
    ELSE IF rf.hex THEN FRound(rf.neg, rf.D, rf.dp - 4 * rf.nd, FALSE)
    ELSE DecimalFloat(rf.neg, rf.D, rf.nd, rf.dp)

\* f, _ := strconv.ParseFloat(s, 64): the float64 nearest to the number s
\* spells, an infinity when that is out of range, 0 on a syntax error
ParseFloat(s) ==
    IF IsSpecialFloat(s) THEN SpecialFloat(s) ELSE FloatRead(ReadFloat(s))

(***************************************************************************)
(* The int of the code: 64 bits, a sign and a magnitude                    *)
(***************************************************************************)
IntOf(n) == [neg |-> n < 0, mag |-> BFromInt(IF n < 0 THEN 0 - n ELSE n)]

MinInt64 == [neg |-> TRUE, mag |-> BShl(<<1>>, 63)]

MaxInt64 == [neg |-> FALSE, mag |-> BSub(BShl(<<1>>, 63), <<1>>)]

\* The platforms of the build: what int(f) yields for a float64 that no
\* int holds, and whether a product and a sum are fused, is left to the
\* implementation
Builds == {"amd64", "arm64"}

Signed(neg, mag) == [neg |-> neg /\ mag # <<>>, mag |-> mag]

\* int(x): the integer part of x; for NaN, an infinity or a value out of
\* the range of int, the smallest int on amd64, and on arm64 0 for NaN and
\* the nearest int for the others
IntOfFloat(platform, x) ==
    IF x.k = "nan" THEN (IF platform = "amd64" THEN MinInt64 ELSE IntOf(0))
    ELSE IF x.k = "fin" /\ BBitLen(x.m) + x.e <= 63
    THEN Signed(x.neg, IF x.e >= 0 THEN BShl(x.m, x.e) ELSE BShr(x.m, 0 - x.e))
    ELSE IF x.k = "fin" /\ x.neg /\ x.m = <<1>> /\ x.e = 63 THEN MinInt64
    ELSE IF platform = "amd64" \/ x.neg THEN MinInt64
    ELSE MaxInt64

\* float64(n) for an int
FFromBig(n) == FRound(n.neg, n.mag, 0, FALSE)

\* n > 0
IntPositive(n) == ~n.neg /\ n.mag # <<>>

\* a + b for integers of any size
SignedSum(a, b) ==
    IF a.neg = b.neg THEN Signed(a.neg, BAdd(a.mag, b.mag))
    ELSE IF BCmp(a.mag, b.mag) >= 0 THEN Signed(a.neg, BSub(a.mag, b.mag))
    ELSE Signed(b.neg, BSub(b.mag, a.mag))

\* The int that is n modulo 2^64, for n from -2^64 to 2^64
Wrap64(n) ==
    IF ~n.neg /\ BCmp(n.mag, BShl(<<1>>, 63)) >= 0
    THEN Signed(TRUE, BSub(BShl(<<1>>, 64), n.mag))
    ELSE IF n.neg /\ BCmp(n.mag, BShl(<<1>>, 63)) > 0
    THEN Signed(FALSE, BSub(BShl(<<1>>, 64), n.mag))
    ELSE n

\* a + b on int: the sum wraps around at 64 bits
IntAdd(a, b) == Wrap64(SignedSum(a, b))

\* strconv.ParseUint(s, 10, 64) from position i on, n read so far: a
\* syntax error at the first character that is no digit, a range error as
\* soon as the digits read pass 2^64 - 1, whatever follows them
RECURSIVE ParseUint(_, _, _)
ParseUintNext(s, i, n1) ==
    IF BCmp(n1, BShl(<<1>>, 64)) >= 0 THEN [err |-> "range", n |-> <<>>]
    ELSE ParseUint(s, i + 1, n1)

ParseUint(s, i, n) ==
    IF i > Len(s) THEN [err |-> "nil", n |-> n]
    ELSE IF ~IsDigit(s[i]) THEN [err |-> "syntax", n |-> <<>>]
    ELSE ParseUintNext(s, i, BAdd(BMulSmall(n, 10), BFromInt(DigitVal(s[i]))))

\* The int strconv.ParseInt(s, 10, 0) returns beside the outcome un of
\* ParseUint on the digits: 0 with a syntax error, the nearest int with a
\* range error
IntParsed(neg, un) ==
    IF un.err = "syntax" THEN IntOf(0)
    ELSE IF un.err = "range" THEN (IF neg THEN MinInt64 ELSE MaxInt64)
    ELSE IF ~neg /\ BCmp(un.n, BShl(<<1>>, 63)) >= 0 THEN MaxInt64
    ELSE IF neg /\ BCmp(un.n, BShl(<<1>>, 63)) > 0 THEN MinInt64
    ELSE Signed(neg, un.n)

\* n, _ := strconv.Atoi(s): an optional sign and decimal digits; the error
\* is dropped, so that n is 0 on a syntax error and the largest or the
\* smallest int when the number is out of range
Atoi(s) ==
    IF Unsigned(s) = <<>> THEN IntOf(0)
    ELSE IntParsed(Head(s) = "-", ParseUint(Unsigned(s), 1, <<>>))

(***************************************************************************)
(* strconv.Itoa and the verb %.2f                                          *)
(***************************************************************************)
RECURSIVE SmallDecimal(_)
SmallDecimal(n) ==
    IF n < 10 THEN <<Digits[n + 1]>>
    ELSE Append(SmallDecimal(n \div 10), Digits[(n % 10) + 1])

\* The four decimal digits of n < 10000
FourDigits(n) ==
    <<Digits[(n \div 1000) + 1], Digits[((n \div 100) % 10) + 1],
      Digits[((n \div 10) % 10) + 1], Digits[(n % 10) + 1]>>

\* The decimal digits of a, four at a time from the low end
RECURSIVE BDecimal(_)
RECURSIVE BDecimalSplit(_)
BDecimal(a) ==
    IF Len(a) <= 1 /\ Limb(a, 1) < 10000 THEN SmallDecimal(Limb(a, 1))
    ELSE BDecimalSplit(BDivSmall(a, 10000))

BDecimalSplit(dm) == BDecimal(dm.q) \o FourDigits(dm.r)

\* strconv.Itoa(n)
Itoa(n) == (IF n.neg THEN <<"-">> ELSE <<>>) \o BDecimal(n.mag)

RECURSIVE TwoDecimals(_)
\* The digits ds of a number of hundredths, as units, a point and two
\* decimals
TwoDecimals(ds) ==
    IF Len(ds) < 3
    THEN TwoDecimals([i \in 1..(3 - Len(ds)) |-> "0"] \o ds)
    ELSE SubSeq(ds, 1, Len(ds) - 2) \o <<".">> \o SubSeq(ds, Len(ds) - 1, Len(ds))

\* fmt.Sprintf("%.2f", x): the exact value of x to two decimal places, a
\* half to the even digit
FormatFloat(x) ==
    IF x.k = "nan" THEN <<"N", "a", "N">>
    ELSE IF x.k = "inf"
    THEN (IF x.neg THEN <<"-", "I", "n", "f">> ELSE <<"+", "I", "n", "f">>)
    ELSE (IF x.neg THEN <<"-">> ELSE <<>>)
         \o TwoDecimals(BDecimal(
                IF x.e >= 0 THEN BShl(BMulSmall(x.m, 100), x.e)
                ELSE BShrEven(BMulSmall(x.m, 100), 0 - x.e, FALSE)))


(***************************************************************************)
(* parseDollar, parseOdds, parseInt                                        *)
(***************************************************************************)
parseDollar(s) == Atoi(RemoveChar(RemoveChar(s, "$"), ","))

parseOdds(s) ==
    LET parts == Split(s, ":")
    IN  IF Len(parts) # 2 THEN FZero(FALSE) ELSE ParseFloat(parts[2])

parseInt(s) == Atoi(RemoveChar(s, ","))

(***************************************************************************)
(* ParseMetaData: the last matching row of each label wins                 *)
(***************************************************************************)
TicketPriceLabel == <<"t", "i", "c", "k", "e", "t", " ", "p", "r", "i", "c", "e">>

OverallOddsLabel == <<"o", "v", "e", "r", "a", "l", "l", " ", "o", "d", "d", "s">>

LaunchDateLabel == <<"l", "a", "u", "n", "c", "h", " ", "d", "a", "t", "e">>

\* The row's case of the switch: the first label its key contains
MetaCase(row) ==
    LET key == ToLower(row[1])
    IN  IF Len(row) < 2 THEN "skip"
        ELSE IF Contains(key, TicketPriceLabel) THEN "price"
        ELSE IF Contains(key, OverallOddsLabel) THEN "odds"
        ELSE IF Contains(key, LaunchDateLabel) THEN "date"
        ELSE "skip"

RECURSIVE ParseMetaFrom(_, _, _)
ParseMetaFrom(table, i, acc) ==
    IF i > Len(table) THEN acc
    ELSE LET row == table[i]
             c   == MetaCase(row)
         IN  ParseMetaFrom(table, i + 1,
                 IF c = "price" THEN [acc EXCEPT !.price = parseDollar(row[2])]
                 ELSE IF c = "odds" THEN [acc EXCEPT !.odds = parseOdds(row[2])]
                 ELSE IF c = "date" THEN [acc EXCEPT !.launchDate = row[2]]
                 ELSE acc)

ParseMetaData(table) ==
    ParseMetaFrom(table, 1, [price |-> IntOf(0), odds |-> FZero(FALSE), launchDate |-> <<>>])

(***************************************************************************)
(* ParsePrizes                                                             *)
(***************************************************************************)
SecondChance == <<"2", "n", "d", " ", "c", "h", "a", "n", "c", "e">>

\* The rows ParsePrizes turns into tiers
PrizeRowKept(row) ==
    Len(row) >= 3 /\ ~Contains(ToLower(row[1]), SecondChance)

PrizeTierOf(row) ==
    [Value          |-> parseDollar(row[1]),
     OriginalCount  |-> parseInt(row[2]),
     RemainingCount |-> parseInt(row[3])]

RECURSIVE ParsePrizesFrom(_, _)
ParsePrizesFrom(table, i) ==
    IF i > Len(table) THEN <<>>
    ELSE (IF PrizeRowKept(table[i]) THEN <<PrizeTierOf(table[i])>> ELSE <<>>)
         \o ParsePrizesFrom(table, i + 1)

\* table[1:] panics on a table with no row at all
ParsePrizesPanics(table) == Len(table) = 0

\* The rows after the header row (TLA+ sequences start at 1)
ParsePrizes(table) == ParsePrizesFrom(table, 2)

(***************************************************************************)
(* Game, its ticket estimates and EV                                       *)
(***************************************************************************)
\* totalOrg += p.OriginalCount over the tiers, in their order
RECURSIVE SumOriginal(_)
SumOriginal(tiers) ==
    IF tiers = <<>> THEN IntOf(0)
    ELSE IntAdd(SumOriginal(SubSeq(tiers, 1, Len(tiers) - 1)),
                tiers[Len(tiers)].OriginalCount)

\* totalRemain += p.RemainingCount over the tiers, in their order
RECURSIVE SumRemaining(_)
SumRemaining(tiers) ==
    IF tiers = <<>> THEN IntOf(0)
    ELSE IntAdd(SumRemaining(SubSeq(tiers, 1, Len(tiers) - 1)),
                tiers[Len(tiers)].RemainingCount)

\* int(math.Round(g.Odds * float64(g.TotalOriginalPrizes)))
OriginalTickets(g) ==
    IntOfFloat(build, MathRound(FMul(g.Odds, FFromBig(g.TotalOriginalPrizes))))

\* int(math.Round(g.Odds * float64(g.TotalRemainingPrizes)))
RemainingTickets(g) ==
    IntOfFloat(build, MathRound(FMul(g.Odds, FFromBig(g.TotalRemainingPrizes))))

\* A tier the EV loop skips: p.RemainingCount <= 0 || p.Value <= 0
TierSkipped(p) == ~IntPositive(p.RemainingCount) \/ ~IntPositive(p.Value)

\* expectedWin += prob * float64(p.Value): the arm64 build fuses the product
\* and the sum into one operation that rounds once, the amd64 build rounds
\* the product and then the sum
MulAdd(platform, prob, value, expectedWin) ==
    IF platform = "arm64" THEN FMA(prob, value, expectedWin)
    ELSE FAdd(expectedWin, FMul(prob, value))

\* The loop of EV over the tiers left, expectedWin so far and
\* float64(remainingTickets) given:
\* prob := float64(p.RemainingCount) / float64(remainingTickets)
\* expectedWin += prob * float64(p.Value)
RECURSIVE ExpectedWin(_, _, _)
ExpectedWin(tiers, expectedWin, remaining) ==
    IF tiers = <<>> THEN expectedWin
    ELSE ExpectedWin(Tail(tiers),
             IF TierSkipped(Head(tiers)) THEN expectedWin
             ELSE MulAdd(build,
                         FDiv(FFromBig(Head(tiers).RemainingCount), remaining),
                         FFromBig(Head(tiers).Value),
                         expectedWin),
             remaining)

\* EV after remainingTickets := g.RemainingTickets()
EVOver(g, remainingTickets) ==
    IF remainingTickets.mag = <<>> THEN FFromBig(g.Price)
    ELSE FSub(FFromBig(g.Price),
              ExpectedWin(g.PrizeTiers, FZero(FALSE), FFromBig(remainingTickets)))

EV(g) == EVOver(g, RemainingTickets(g))

(***************************************************************************)
(* exctractGameName and BuildGame                                          *)
(***************************************************************************)
exctractGameName(url) ==
    LET parts == Split(Trim(url, {"/"}), "/")
    IN  IF Len(parts) > 1 THEN ReplaceChar(parts[Len(parts)], "-", " ")
        ELSE url

\* tables[0], tables[1] and table[1:] panic (index or slice bounds out of
\* range) when the page has fewer than two tables or an empty prize table
BuildGamePanics(tbls) ==
    IF Len(tbls) < 2 THEN TRUE ELSE ParsePrizesPanics(tbls[2])

\* The Game of the metadata and the tiers parsed
GameOf(meta, tiers, name, url) ==
    [Name                 |-> name,
     Price                |-> meta.price,
     Odds                 |-> meta.odds,
     LaunchDate           |-> meta.launchDate,
     GameNumber           |-> IntOf(0),
     PrizeTiers           |-> tiers,
     TotalOriginalPrizes  |-> SumOriginal(tiers),
     TotalRemainingPrizes |-> SumRemaining(tiers),
     URL                  |-> url]

BuildGame(tbls, name, url) ==
    GameOf(ParseMetaData(tbls[1]), ParsePrizes(tbls[2]), name, url)


(***************************************************************************)
(* Pages: the cell texts, rows and tables the model draws its inputs from  *)
(***************************************************************************)
\* The zero Game
NoGame == [Name |-> <<>>, Price |-> IntOf(0), Odds |-> FZero(FALSE),
           LaunchDate |-> <<>>, GameNumber |-> IntOf(0), PrizeTiers |-> <<>>,
           TotalOriginalPrizes |-> IntOf(0), TotalRemainingPrizes |-> IntOf(0),
           URL |-> <<>>]

MaxPrizeRows == 2

HeaderRow == <<<<"P", "r", "i", "z", "e">>, <<"O", "r", "i", "g", "i", "n", "a", "l">>, <<"R", "e", "m", "a", "i", "n", "i", "n", "g">>>>

PrizeRows ==
    { <<<<"$", "1", "0", "0">>, <<"5", "0">>, <<"1", "0">>>>,
      <<<<"$", "1", "0", "0">>, <<"5", "0">>, <<"1", "0">>, <<"c", "l", "a", "i", "m", "e", "d">>>>,
      <<<<"2", "n", "d", " ", "C", "h", "a", "n", "c", "e">>, <<"5">>, <<"5">>>>,
      <<<<"W", "i", "n", " ", "a", " ", "2", "N", "D", " ", "C", "H", "A", "N", "C", "E", " ", "e", "n", "t", "r", "y">>, <<"5">>, <<"5">>>>,
      <<<<"$", "5">>, <<"1", ",", "0", "0", "0">>, <<"-", "1", "0">>>>,
      <<<<"$", "5">>, <<"1", ",", "0", "0", "0">>, <<"-", "4">>>>,
      <<<<"$", "2", "0">>, <<"8">>, <<"0">>>>,
      <<<<"F", "R", "E", "E">>, <<"8">>, <<"4">>>>,
      <<<<"$", "1", "0", "0">>, <<"5", "0">>>>,
      <<>>,
      <<<<"$", "9">>, <<"8">>, <<"1", "0">>>>,
      <<<<"$", "9", "9", "9", "9", "9", "9", "9", "9", "9", "9", "9", "9", "9", "9", "9", "9", "9", "9", "9", "9">>,
        <<"9", "2", "2", "3", "3", "7", "2", "0", "3", "6", "8", "5", "4", "7", "7", "5", "8", "0", "7">>,
        <<"9", "2", "2", "3", "3", "7", "2", "0", "3", "6", "8", "5", "4", "7", "7", "5", "8", "0", "7">>>> }

RECURSIVE SeqsUpTo(_, _)
SeqsUpTo(S, k) ==
    IF k = 0 THEN {<<>>}
    ELSE LET shorter == SeqsUpTo(S, k - 1)
         IN  shorter \cup {Append(q, e) : q \in shorter, e \in S}

PrizeTables == {<<HeaderRow>> \o body : body \in SeqsUpTo(PrizeRows, MaxPrizeRows)}

MetaTables ==
    { << <<<<"T", "i", "c", "k", "e", "t", " ", "P", "r", "i", "c", "e">>, <<"$", "5">>>>, <<<<"O", "v", "e", "r", "a", "l", "l", " ", "O", "d", "d", "s">>, <<"1", ":", "3", ".", "5", "0">>>>, <<<<"L", "a", "u", "n", "c", "h", " ", "D", "a", "t", "e">>, <<"2", "0", "2", "3", "-", "0", "1", "-", "0", "1">>>> >>,
      << <<<<"o", "v", "e", "r", "a", "l", "l", " ", "o", "d", "d", "s", ":">>, <<"1", ":", "2">>>>, <<<<"T", "U+0130", "C", "U+212A", "E", "T", " ", "P", "R", "I", "C", "E">>, <<"$", "1", ",", "0", "0", "0">>>>, <<<<"T", "i", "c", "k", "e", "t", " ", "P", "r", "i", "c", "e">>>> >>,
      << <<<<"T", "i", "c", "k", "e", "t", " ", "P", "r", "i", "c", "e">>, <<"$", "2", "0">>>>, <<<<"O", "v", "e", "r", "a", "l", "l", " ", "O", "d", "d", "s">>, <<"3", ".", "5", "0">>>>, <<<<"O", "v", "e", "r", "a", "l", "l", " ", "O", "d", "d", "s">>, <<"1", ":", "-", "4", ".", "5">>>> >>,
      << <<<<"T", "i", "c", "k", "e", "t", " ", "P", "r", "i", "c", "e">>, <<"F", "R", "E", "E">>>>, <<<<"G", "a", "m", "e", " ", "N", "u", "m", "b", "e", "r">>, <<"5">>>> >>,
      << <<<<"T", "i", "c", "k", "e", "t", " ", "P", "r", "i", "c", "e">>, <<"$", "5">>>>, <<<<"O", "v", "e", "r", "a", "l", "l", " ", "O", "d", "d", "s">>, <<"1", ":", "1", ".", "1", "3">>>> >>,
      << <<<<"O", "v", "e", "r", "a", "l", "l", " ", "O", "d", "d", "s">>, <<"1", ":", "1", "e", "3", "0">>>> >>,
      << <<<<"O", "v", "e", "r", "a", "l", "l", " ", "O", "d", "d", "s">>, <<"1", ":", "N", "a", "N">>>> >>,
      << <<<<"T", "i", "c", "k", "e", "t", " ", "P", "r", "i", "c", "e">>, <<"$", "2">>>>, <<<<"O", "v", "e", "r", "a", "l", "l", " ", "O", "d", "d", "s">>, <<"1", ":", "-", "I", "n", "f">>>> >> }

(***************************************************************************)
(* BuildGame and EV on one page's tables                                   *)
(***************************************************************************)
GameIdle ==
    /\ gpc = "idle" /\ gtables = <<>> /\ ggame = NoGame /\ gev = FZero(FALSE)

GameInit ==
    /\ gpc = "start"
    /\ gtables \in {<<m, p>> : m \in MetaTables, p \in PrizeTables}
                   \cup {<<>>} \cup {<<m>> : m \in MetaTables}
                   \cup {<<m, <<>>>> : m \in MetaTables}
    /\ ggame = NoGame
    /\ gev = FZero(FALSE)

GameURL == <<"h", "t", "t", "p", "s", ":", "/", "/", "m", "s", "/", "g", "a", "m", "e", "/", "l", "u", "c", "k", "y", "-", "7", "s", "/">>

\* g := BuildGame(tables, name, l)
DoBuildGame ==
    /\ gpc = "start"
    /\ ~BuildGamePanics(gtables)
    /\ ggame' = BuildGame(gtables, exctractGameName(GameURL), GameURL)
    /\ gpc' = "built"
    /\ UNCHANGED <<gtables, gev>>

\* BuildGame panics: the goroutine, and with it the process, dies
DoBuildGamePanic ==
    /\ gpc = "start"
    /\ BuildGamePanics(gtables)
    /\ gpc' = "panic"
    /\ UNCHANGED <<gtables, ggame, gev>>

\* ev := g.EV()
DoEV ==
    /\ gpc = "built"
    /\ gev' = EV(ggame)
    /\ gpc' = "ev"
    /\ UNCHANGED <<gtables, ggame>>

(***************************************************************************)
(* Tokens of golang.org/x/net/html: a type and the tag name or the text    *)
(***************************************************************************)
StartTag(name) == [tt |-> "StartTag", data |-> name]

EndTag(name) == [tt |-> "EndTag", data |-> name]

Text(chars) == [tt |-> "Text", data |-> chars]

CommentToken == [tt |-> "Comment", data |-> "c"]

MaxTokens == 7

TableTags == {"table", "tr", "td", "th"}

\* td and th open the same kind of element
TagKind(name) == IF name = "th" THEN "td" ELSE name

CellTexts == {<<"x">>, <<" ", "U+00A0">>, <<"\f", "y", " ", "z", "U+00A0">>}

\* The table, tr and td/th elements open after the tokens of seen
RECURSIVE OpenElements(_)
OpenElements(seen) ==
    IF seen = <<>> THEN <<>>
    ELSE LET before == OpenElements(SubSeq(seen, 1, Len(seen) - 1))
             tok    == seen[Len(seen)]
         IN  IF tok.tt = "StartTag" /\ tok.data \in TableTags
             THEN Append(before, tok.data)
             ELSE IF tok.tt = "EndTag" /\ tok.data \in TableTags
             THEN SubSeq(before, 1, Len(before) - 1)
             ELSE before

InnerElement(seen) ==
    LET open == OpenElements(seen)
    IN  IF open = <<>> THEN "none" ELSE open[Len(open)]

\* The tokens that may follow seen in a page whose table, tr and td/th
\* elements are properly closed and never nested in an element of their own
\* kind.  Of the tokens that change nothing, the model draws th and text
\* between cells inside rows only, blank text and inline tags inside cells
\* only, and comments outside every element only.
NextTokens(seen) ==
    IF Len(seen) >= MaxTokens THEN {}
    ELSE
    LET open  == OpenElements(seen)
        kinds == {TagKind(open[i]) : i \in 1..Len(open)}
        inner == InnerElement(seen)
    IN  {StartTag(n) : n \in {m \in {"table", "tr", "td"} : m \notin kinds}}
        \cup (IF inner = "none" THEN {CommentToken} ELSE {EndTag(inner)})
        \cup (IF inner = "tr" /\ "td" \notin kinds
              THEN {StartTag("th"), Text(<<"x">>)} ELSE {})
        \cup (IF inner \in {"td", "th"}
              THEN {Text(c) : c \in CellTexts} \cup {StartTag("b")} ELSE {})

(***************************************************************************)
(* ExtractTables: the loop body, and one action per case of the switch     *)
(***************************************************************************)
TableInit ==
    /\ xpc = "scan" /\ xseen = <<>> /\ tables = <<>> /\ currentTable = <<>>
    /\ currentRow = <<>> /\ inTable = FALSE /\ inRow = FALSE /\ inCell = FALSE

\* As TextAppended, without the test for an empty text
TextAppendedBlank(row, data) == Append(row, TrimSpace(data))

\* txt := strings.TrimSpace(data); if txt != "" { append(currentRow, txt) }
TextAppended(row, data) ==
    IF TrimSpace(data) # <<>> THEN Append(row, TrimSpace(data)) ELSE row

\* One iteration of the loop of ExtractTables on the locals st
ExtractStep(st, tok) ==
    IF tok.tt = "StartTag" /\ tok.data = "table"
    THEN [st EXCEPT !.inTable = TRUE, !.currentTable = <<>>]
    ELSE IF tok.tt = "StartTag" /\ tok.data = "tr" /\ st.inTable
    THEN [st EXCEPT !.inRow = TRUE, !.currentRow = <<>>]
    ELSE IF tok.tt = "StartTag" /\ tok.data \in {"td", "th"} /\ st.inRow
    THEN [st EXCEPT !.inCell = TRUE]
    ELSE IF tok.tt = "EndTag" /\ tok.data \in {"td", "th"}
    THEN [st EXCEPT !.inCell = FALSE]
    ELSE IF tok.tt = "EndTag" /\ tok.data = "tr" /\ st.inRow
    THEN [st EXCEPT !.inRow = FALSE, !.currentTable = Append(@, st.currentRow)]
    ELSE IF tok.tt = "EndTag" /\ tok.data = "table" /\ st.inTable
    THEN [st EXCEPT !.inTable = FALSE, !.tables = Append(@, st.currentTable)]
    ELSE IF tok.tt = "Text" /\ st.inCell
    THEN [st EXCEPT !.currentRow = TextAppended(@, tok.data)]
    ELSE st

\* The locals of ExtractTables after the loop has run from st over the
\* tokens a..b (the range is halved to keep the evaluation shallow)
RECURSIVE ExtractOver(_, _, _, _)
ExtractOver(st, toks, a, b) ==
    IF a > b THEN st
    ELSE IF a = b THEN ExtractStep(st, toks[a])
    ELSE LET mid  == (a + b) \div 2
             left == ExtractOver(st, toks, a, mid)
         IN  IF left.inTable \in BOOLEAN
             THEN ExtractOver(left, toks, mid + 1, b)
             ELSE left

\* ExtractTables as a function of the whole token sequence
ExtractTables(toks) ==
    ExtractOver([tables |-> <<>>, currentTable |-> <<>>, currentRow |-> <<>>,
                 inTable |-> FALSE, inRow |-> FALSE, inCell |-> FALSE],
                toks, 1, Len(toks)).tables

\* The loop's locals, and one iteration of the loop on the next token
XLocals ==
    [tables |-> tables, currentTable |-> currentTable, currentRow |-> currentRow,
     inTable |-> inTable, inRow |-> inRow, inCell |-> inCell]

XIterate(tok) ==
    LET st == ExtractStep(XLocals, tok)
    IN  /\ xseen' = Append(xseen, tok)
        /\ tables' = st.tables
        /\ currentTable' = st.currentTable
        /\ currentRow' = st.currentRow
        /\ inTable' = st.inTable
        /\ inRow' = st.inRow
        /\ inCell' = st.inCell
        /\ UNCHANGED xpc

\* case html.StartTagToken
XStartTag(tok) ==
    /\ xpc = "scan" /\ Len(xseen) < MaxTokens
    /\ tok.tt = "StartTag"
    /\ XIterate(tok)

\* case html.EndTagToken
XEndTag(tok) ==
    /\ xpc = "scan" /\ Len(xseen) < MaxTokens
    /\ tok.tt = "EndTag"
    /\ XIterate(tok)

\* case html.TextToken
XText(tok) ==
    /\ xpc = "scan" /\ Len(xseen) < MaxTokens
    /\ tok.tt = "Text"
    /\ XIterate(tok)

\* A token of a type the switch has no case for
XOther(tok) ==
    /\ xpc = "scan" /\ Len(xseen) < MaxTokens
    /\ tok.tt \notin {"StartTag", "EndTag", "Text"}
    /\ XIterate(tok)

\* case html.ErrorToken, at the end of the page: return tables
XError ==
    /\ xpc = "scan"
    /\ OpenElements(xseen) = <<>>
    /\ xpc' = "done"
    /\ UNCHANGED <<xseen, tables, currentTable, currentRow, inTable, inRow, inCell>>

(***************************************************************************)
(* GetLinks: the scan of the landing page                                  *)
(***************************************************************************)
MaxPage == 6

MarkerClass == "col-lg-3 gamebox"

Attr(key, val) == [Key |-> key, Val |-> val]

TagToken(type, name, attrs) == [tt |-> type, data |-> name, attr |-> attrs]

\* The tokens the landing pages of the model are made of
LandingTokens ==
    { TagToken("StartTag", "div", <<Attr("id", "m"), Attr("class", MarkerClass)>>),
      TagToken("StartTag", "div", <<Attr("class", "col-lg-3")>>),
      TagToken("EndTag", "div", <<>>),
      TagToken("StartTag", "a", <<Attr("href", "/game/a-1/")>>),
      TagToken("StartTag", "a", <<Attr("class", "btn"), Attr("href", "/game/b/")>>),
      TagToken("EndTag", "a", <<>>) }

IsDivStart(tok) == tok.tt = "StartTag" /\ tok.data = "div"

IsDivEnd(tok) == tok.tt = "EndTag" /\ tok.data = "div"

\* The number of div elements open after the tokens of seen
RECURSIVE OpenDivs(_)
OpenDivs(seen) ==
    IF seen = <<>> THEN 0
    ELSE OpenDivs(SubSeq(seen, 1, Len(seen) - 1))
         + (IF IsDivStart(seen[Len(seen)]) THEN 1
            ELSE IF IsDivEnd(seen[Len(seen)]) THEN 0 - 1 ELSE 0)

\* The tokens that may follow seen in a page of well-nested divs
NextLandingTokens(seen) ==
    IF Len(seen) >= MaxPage THEN {}
    ELSE {tok \in LandingTokens : IsDivEnd(tok) => OpenDivs(seen) > 0}

LinkInit ==
    /\ lpc = "gethtml" /\ lseen = <<>> /\ links = <<>>
    /\ inActiveSession = FALSE /\ divDepth = 0

\* GetHTML: http.Get(startUrl) fails, and log.Fatal ends the process
LGetHTMLGetError ==
    /\ lpc = "gethtml"
    /\ lpc' = "fatal_get"
    /\ UNCHANGED <<lseen, links, inActiveSession, divDepth>>

\* GetHTML: io.ReadAll fails, and log.Fatal ends the process
LGetHTMLReadError ==
    /\ lpc = "gethtml"
    /\ lpc' = "fatal_read"
    /\ UNCHANGED <<lseen, links, inActiveSession, divDepth>>

\* GetHTML returns the landing page, and the tokenizer is set on it
LGetHTML ==
    /\ lpc = "gethtml"
    /\ lpc' = "scan"
    /\ UNCHANGED <<lseen, links, inActiveSession, divDepth>>

HasMarker(tok) ==
    \E i \in 1..Len(tok.attr) :
        tok.attr[i].Key = "class" /\ tok.attr[i].Val = MarkerClass

\* The values of the href attributes of a tag, in order
Hrefs(tok) ==
    LET h == SelectSeq(tok.attr, LAMBDA a : a.Key = "href")
    IN  [i \in 1..Len(h) |-> h[i].Val]

\* A div start tag: the marker opens the session at depth 1; then the depth
\* grows when inside the session and the depth is not 1
LStartDiv(tok) ==
    /\ lpc = "scan"
    /\ IsDivStart(tok)
    /\ lseen' = Append(lseen, tok)
    /\ LET active == inActiveSession \/ HasMarker(tok)
           depth  == IF HasMarker(tok) THEN 1 ELSE divDepth
       IN  /\ inActiveSession' = active
           /\ divDepth' = IF active /\ ~(tok.data = "div" /\ depth = 1)
                          THEN depth + 1 ELSE depth
    /\ UNCHANGED <<lpc, links>>

\* A div end tag: inside the session the depth falls, and the session ends
\* at depth 0
LEndDiv(tok) ==
    /\ lpc = "scan"
    /\ IsDivEnd(tok)
    /\ lseen' = Append(lseen, tok)
    /\ IF inActiveSession
       THEN /\ divDepth' = divDepth - 1
            /\ inActiveSession' = (divDepth - 1 # 0)
       ELSE UNCHANGED <<divDepth, inActiveSession>>
    /\ UNCHANGED <<lpc, links>>

\* An anchor start tag: inside the session its hrefs are captured
LStartA(tok) ==
    /\ lpc = "scan"
    /\ tok.tt = "StartTag" /\ tok.data = "a"
    /\ lseen' = Append(lseen, tok)
    /\ links' = IF inActiveSession THEN links \o Hrefs(tok) ELSE links
    /\ UNCHANGED <<lpc, inActiveSession, divDepth>>

\* Any other token
LOther(tok) ==
    /\ lpc = "scan"
    /\ ~IsDivStart(tok) /\ ~IsDivEnd(tok)
    /\ ~(tok.tt = "StartTag" /\ tok.data = "a")
    /\ lseen' = Append(lseen, tok)
    /\ UNCHANGED <<lpc, links, inActiveSession, divDepth>>

\* html.ErrorToken at the end of the page: return links
LError ==
    /\ lpc = "scan"
    /\ OpenDivs(lseen) = 0
    /\ lpc' = "done"
    /\ UNCHANGED <<lseen, links, inActiveSession, divDepth>>

(***************************************************************************)
(* main: the links, the game pages behind them, and the report             *)
(***************************************************************************)
NLinks == 3

\* The capacity of the limiter, standing for the 75 of make(chan struct{}, 75)
SemCap == 2

\* The href of the i-th discovered link
LinkURL(i) == <<"h", "t", "t", "p", "s", ":", "/", "/", "m", "s", "/", "g", "a", "m", "e", "/", "l", "u", "c", "k", "y", "-">> \o <<Digits[(i % 10) + 1]>> \o <<"/">>

\* The markup of a page holding the given tables, as the tokenizer reads it
RECURSIVE Flatten(_)
Flatten(seqs) == IF seqs = <<>> THEN <<>> ELSE Head(seqs) \o Flatten(Tail(seqs))

CellMarkup(cell) == <<StartTag("td"), Text(<<" ">> \o cell \o <<"\n">>), EndTag("td")>>

RowMarkup(row) ==
    <<StartTag("tr")>> \o Flatten([i \in 1..Len(row) |-> CellMarkup(row[i])])
    \o <<EndTag("tr"), Text(<<"\n">>)>>

TableMarkup(table) ==
    <<StartTag("table")>> \o Flatten([i \in 1..Len(table) |-> RowMarkup(table[i])])
    \o <<EndTag("table")>>

PageMarkup(tbls) ==
    <<StartTag("html"), Text(<<"G", "a", "m", "e">>)>>
    \o Flatten([i \in 1..Len(tbls) |-> TableMarkup(tbls[i])])
    \o <<EndTag("html")>>

MetaA == << <<<<"T", "i", "c", "k", "e", "t", " ", "P", "r", "i", "c", "e">>, <<"$", "5">>>>, <<<<"O", "v", "e", "r", "a", "l", "l", " ", "O", "d", "d", "s">>, <<"1", ":", "3", ".", "5", "0">>>>, <<<<"L", "a", "u", "n", "c", "h", " ", "D", "a", "t", "e">>, <<"2", "0", "2", "3", "-", "0", "1", "-", "0", "1">>>> >>

MetaB == << <<<<"T", "i", "c", "k", "e", "t", " ", "P", "r", "i", "c", "e">>, <<"$", "2", "0">>>>, <<<<"O", "v", "e", "r", "a", "l", "l", " ", "O", "d", "d", "s">>, <<"1", ":", "2">>>> >>

\* The game pages of the site: link i answers with the page i mod 3
GoodPages ==
    << PageMarkup(<<MetaA, <<HeaderRow, <<<<"$", "1", "0", "0">>, <<"5", "0">>, <<"1", "0">>>>, <<<<"$", "9">>, <<"8">>, <<"1", "0">>>> >> >>),
       PageMarkup(<<MetaA, <<HeaderRow, <<<<"$", "1", "0", "0">>, <<"5", "0">>, <<"1", "0">>>>, <<<<"2", "n", "d", " ", "C", "h", "a", "n", "c", "e">>, <<"5">>, <<"5">>>> >> >>),
       PageMarkup(<<MetaB, <<HeaderRow, <<<<"$", "2", "0">>, <<"8">>, <<"0">>>> >> >>) >>

\* A page with one table only, and a page whose prize table has no row
BadPages ==
    << PageMarkup(<<MetaA>>),
       PageMarkup(<<MetaA, <<>>>>) >>

\* The bodies the i-th link may answer with
GamePages(i) == {GoodPages[(i % 3) + 1], BadPages[(i % 2) + 1]}

CSVHeader == <<"Name", "Price", "Odds", "Launch Date", "Original Winning Tickets",
               "Remaining Winning Tickets", "Estimated Original Tickets",
               "Estimated Remaining Tickets", "EV", "URL">>

\* The record WriteCSV writes for a game: the ten columns as text
CSVRow(g) ==
    <<g.Name,
      Itoa(g.Price),
      <<"1", ":">> \o FormatFloat(g.Odds),
      g.LaunchDate,
      Itoa(g.TotalOriginalPrizes),
      Itoa(g.TotalRemainingPrizes),
      Itoa(OriginalTickets(g)),
      Itoa(RemainingTickets(g)),
      FormatFloat(EV(g)),
      g.URL>>

\* The less function of the sort: games[i].EV() > games[j].EV()
EVGreater(a, b) == FLess(EV(b), EV(a))

\* sort.Slice on a slice of at most 12 elements is an insertion sort
RECURSIVE SiftDown(_, _)
SiftDown(data, j) ==
    IF j > 1 /\ EVGreater(data[j], data[j - 1])
    THEN SiftDown([data EXCEPT ![j] = data[j - 1], ![j - 1] = data[j]], j - 1)
    ELSE data

RECURSIVE InsertionSort(_, _)
InsertionSort(data, i) ==
    IF i > Len(data) THEN data ELSE InsertionSort(SiftDown(data, i), i + 1)

SortSlice(data) == InsertionSort(data, 2)

MainInit ==
    /\ pc = "gethtml"
    /\ li = 1 /\ wi = 0 /\ sem = 0 /\ mu = 0
    /\ games = <<>>
    /\ tpc = [i \in 1..NLinks |-> "idle"]
    /\ fetched = [i \in 1..NLinks |-> "none"]
    /\ ttables = [i \in 1..NLinks |-> <<>>]
    /\ tg = [i \in 1..NLinks |-> NoGame]
    /\ rows = <<>>
    /\ exit = "running"

\* As SemHasRoom, for a send that never blocks
SemUnbounded == TRUE

\* sem <- struct{}{} goes through only while the channel holds fewer than
\* cap(sem) elements
SemHasRoom == sem < SemCap

\* GetLinks, GetHTML: http.Get(startUrl) fails, and log.Fatal ends the
\* process before any task is started
MainGetHTMLGetError ==
    /\ exit = "running" /\ pc = "gethtml"
    /\ exit' = "fatal_landing_get"
    /\ UNCHANGED <<pc, li, wi, sem, mu, games, tpc, fetched, ttables, tg, rows>>

\* GetLinks, GetHTML: io.ReadAll fails, and log.Fatal ends the process
\* before any task is started
MainGetHTMLReadError ==
    /\ exit = "running" /\ pc = "gethtml"
    /\ exit' = "fatal_landing_read"
    /\ UNCHANGED <<pc, li, wi, sem, mu, games, tpc, fetched, ttables, tg, rows>>

\* GetLinks() returns the NLinks links of the landing page
MainGetLinks ==
    /\ exit = "running" /\ pc = "gethtml"
    /\ pc' = IF NLinks = 0 THEN "wait" ELSE "launch"
    /\ UNCHANGED <<li, wi, sem, mu, games, tpc, fetched, ttables, tg, rows, exit>>

\* for _, link := range links { sem <- struct{}{}; go func(l) {...}(link) }
MainLaunch ==
    /\ exit = "running" /\ pc = "launch"
    /\ SemHasRoom
    /\ sem' = sem + 1
    /\ tpc' = [tpc EXCEPT ![li] = "fetch"]
    /\ li' = li + 1
    /\ pc' = IF li = NLinks THEN "wait" ELSE "launch"
    /\ UNCHANGED <<wi, mu, games, fetched, ttables, tg, rows, exit>>

\* GamePage: http.Get fails, and log.Fatal ends the process
TaskFetchGetError(i) ==
    /\ exit = "running" /\ tpc[i] = "fetch"
    /\ fetched' = [fetched EXCEPT ![i] = "geterr"]
    /\ exit' = "fatal_get"
    /\ UNCHANGED <<pc, li, wi, sem, mu, games, tpc, ttables, tg, rows>>

\* GamePage: io.ReadAll fails; ParseGame prints the error and returns nil
TaskFetchReadError(i) ==
    /\ exit = "running" /\ tpc[i] = "fetch"
    /\ fetched' = [fetched EXCEPT ![i] = "readerr"]
    /\ ttables' = [ttables EXCEPT ![i] = <<>>]
    /\ tpc' = [tpc EXCEPT ![i] = "build"]
    /\ UNCHANGED <<pc, li, wi, sem, mu, games, tg, rows, exit>>

\* tables := ParseGame(l): the body is fetched and ExtractTables reads it
TaskFetchOK(i, body) ==
    /\ exit = "running" /\ tpc[i] = "fetch"
    /\ fetched' = [fetched EXCEPT ![i] = "ok"]
    /\ ttables' = [ttables EXCEPT ![i] = ExtractTables(body)]
    /\ tpc' = [tpc EXCEPT ![i] = "build"]
    /\ UNCHANGED <<pc, li, wi, sem, mu, games, tg, rows, exit>>

\* name := exctractGameName(l); g := BuildGame(tables, name, l)
TaskBuildGame(i) ==
    /\ exit = "running" /\ tpc[i] = "build"
    /\ ~BuildGamePanics(ttables[i])
    /\ tg' = [tg EXCEPT ![i] = BuildGame(ttables[i], exctractGameName(LinkURL(i)), LinkURL(i))]
    /\ tpc' = [tpc EXCEPT ![i] = "lock"]
    /\ UNCHANGED <<pc, li, wi, sem, mu, games, fetched, ttables, rows, exit>>

\* BuildGame panics: index out of range, or slice bounds out of range
TaskBuildGamePanic(i) ==
    /\ exit = "running" /\ tpc[i] = "build"
    /\ BuildGamePanics(ttables[i])
    /\ tpc' = [tpc EXCEPT ![i] = "panic"]
    /\ UNCHANGED <<pc, li, wi, sem, mu, games, fetched, ttables, tg, rows, exit>>

\* mu.Lock()
TaskLock(i) ==
    /\ exit = "running" /\ tpc[i] = "lock"
    /\ mu = 0
    /\ mu' = i
    /\ tpc' = [tpc EXCEPT ![i] = "append"]
    /\ UNCHANGED <<pc, li, wi, sem, games, fetched, ttables, tg, rows, exit>>

\* games = append(games, g)
TaskAppend(i) ==
    /\ exit = "running" /\ tpc[i] = "append"
    /\ games' = Append(games, tg[i])
    /\ tpc' = [tpc EXCEPT ![i] = "unlock"]
    /\ UNCHANGED <<pc, li, wi, sem, mu, fetched, ttables, tg, rows, exit>>

\* mu.Unlock()
TaskUnlock(i) ==
    /\ exit = "running" /\ tpc[i] = "unlock"
    /\ mu' = 0
    /\ tpc' = [tpc EXCEPT ![i] = "release"]
    /\ UNCHANGED <<pc, li, wi, sem, games, fetched, ttables, tg, rows, exit>>

\* The deferred <-sem, at the return of the task
TaskRelease(i) ==
    /\ exit = "running" /\ tpc[i] = "release"
    /\ sem > 0
    /\ sem' = sem - 1
    /\ tpc' = [tpc EXCEPT ![i] = "done"]
    /\ UNCHANGED <<pc, li, wi, mu, games, fetched, ttables, tg, rows, exit>>

\* The deferred <-sem, run by the panicking goroutine before the runtime
\* ends the process
TaskPanicRelease(i) ==
    /\ exit = "running" /\ tpc[i] = "panic"
    /\ sem > 0
    /\ sem' = sem - 1
    /\ tpc' = [tpc EXCEPT ![i] = "dying"]
    /\ UNCHANGED <<pc, li, wi, mu, games, fetched, ttables, tg, rows, exit>>

\* The unrecovered panic ends the process
TaskCrash(i) ==
    /\ exit = "running" /\ tpc[i] = "dying"
    /\ exit' = "panic"
    /\ UNCHANGED <<pc, li, wi, sem, mu, games, tpc, fetched, ttables, tg, rows>>

\* for i := 0; i < cap(sem); i++ { sem <- struct{}{} }
MainReacquire ==
    /\ exit = "running" /\ pc = "wait"
    /\ SemHasRoom
    /\ sem' = sem + 1
    /\ wi' = wi + 1
    /\ pc' = IF wi + 1 = SemCap THEN "sort" ELSE "wait"
    /\ UNCHANGED <<li, mu, games, tpc, fetched, ttables, tg, rows, exit>>

\* sort.Slice(games, func(i, j int) bool { return games[i].EV() > games[j].EV() })
MainSort ==
    /\ exit = "running" /\ pc = "sort"
    /\ games' = SortSlice(games)
    /\ pc' = "write"
    /\ UNCHANGED <<li, wi, sem, mu, tpc, fetched, ttables, tg, rows, exit>>

\* WriteCSV: the header, then one record per game in the order of the slice
MainWriteCSV ==
    /\ exit = "running" /\ pc = "write"
    /\ rows' = <<CSVHeader>> \o [k \in 1..Len(games) |-> CSVRow(games[k])]
    /\ pc' = "print"
    /\ UNCHANGED <<li, wi, sem, mu, games, tpc, fetched, ttables, tg, exit>>

\* The file after a write that failed: the records before one of them,
\* and of that one the cut leading fields (a cut between two fields stands
\* for a cut anywhere in the record)
ShortReport(all, k, fields) ==
    SubSeq(all, 1, k)
    \o (IF fields = 0 THEN <<>> ELSE <<SubSeq(all[k + 1], 1, fields)>>)

\* WriteCSV: a write to the file fails, in w.Write or in the deferred
\* w.Flush; both errors are dropped, the file is left short, WriteCSV
\* returns nil and main goes on to print its message
MainWriteCSVShort ==
    /\ exit = "running" /\ pc = "write"
    /\ \E k \in 0..Len(games) : \E fields \in 0..(Len(CSVHeader) - 1) :
           rows' = ShortReport(<<CSVHeader>> \o [j \in 1..Len(games) |-> CSVRow(games[j])],
                               k, fields)
    /\ pc' = "print"
    /\ UNCHANGED <<li, wi, sem, mu, games, tpc, fetched, ttables, tg, exit>>

\* WriteCSV: os.Create fails, and log.Fatal ends the process
MainWriteCSVError ==
    /\ exit = "running" /\ pc = "write"
    /\ exit' = "fatal_csv"
    /\ UNCHANGED <<pc, li, wi, sem, mu, games, tpc, fetched, ttables, tg, rows>>

\* fmt.Println("Data written to mslotto_games.csv"), and main returns
MainDone ==
    /\ exit = "running" /\ pc = "print"
    /\ pc' = "done"
    /\ exit' = "ok"
    /\ UNCHANGED <<li, wi, sem, mu, games, tpc, fetched, ttables, tg, rows>>

(***************************************************************************)
(* The variables of the parts a specification leaves alone                 *)
(***************************************************************************)
BuildInit == build \in Builds

BuildIdle == build = "none"

MainIdle ==
    /\ pc = "idle" /\ li = 0 /\ wi = 0 /\ sem = 0 /\ mu = 0 /\ games = <<>>
    /\ tpc = <<>> /\ fetched = <<>> /\ ttables = <<>> /\ tg = <<>>
    /\ rows = <<>> /\ exit = "idle"

LinkIdle ==
    /\ lpc = "idle" /\ lseen = <<>> /\ links = <<>>
    /\ inActiveSession = FALSE /\ divDepth = 0

TableIdle ==
    /\ xpc = "idle" /\ xseen = <<>> /\ tables = <<>> /\ currentTable = <<>>
    /\ currentRow = <<>> /\ inTable = FALSE /\ inRow = FALSE /\ inCell = FALSE

(***************************************************************************)
(* SpecGame: BuildGame, then EV, on every pair of tables of the bounds     *)
(***************************************************************************)
InitGame == BuildInit /\ GameInit /\ MainIdle /\ LinkIdle /\ TableIdle

NextGame ==
    \/ DoBuildGame /\ UNCHANGED <<build, mainVars, linkVars, tableVars>>
    \/ DoBuildGamePanic /\ UNCHANGED <<build, mainVars, linkVars, tableVars>>
    \/ DoEV /\ UNCHANGED <<build, mainVars, linkVars, tableVars>>

SpecGame == InitGame /\ [][NextGame]_vars

(***************************************************************************)
(* C6 and C7                                                               *)
(***************************************************************************)
\* The sum of the integers f[i], i in idx, as a number of any size
RECURSIVE SumOver(_, _)
SumOver(f, idx) ==
    IF idx = {} THEN IntOf(0)
    ELSE SignedSum(f[CHOOSE j \in idx : TRUE],
                   SumOver(f, idx \ {CHOOSE j \in idx : TRUE}))

\* The cell holds "2nd chance" at some position, letter case ignored
HasSecondChance(cell) ==
    \E i \in 1..(Len(cell) - 9) :
        \A j \in 1..10 : LowerChar(cell[i + j - 1]) = SecondChance[j]

\* The prize rows the claim counts: not the header, 3 cells or more, not a
\* second-chance row
CountedRows(prize) ==
    SelectSeq(Tail(prize), LAMBDA r : Len(r) >= 3 /\ ~HasSecondChance(r[1]))

\* C6: the Game BuildGame returns has one tier per counted prize row, in
\* order, and its two totals are the sums of OriginalCount and of
\* RemainingCount over exactly those tiers.
C6_TiersAndTotals ==
    gpc \in {"built", "ev"} =>
        LET kept == CountedRows(gtables[2])
            t    == ggame.PrizeTiers
        IN  /\ Len(t) = Len(kept)
            /\ \A i \in 1..Len(kept) :
                   /\ t[i].Value = parseDollar(kept[i][1])
                   /\ t[i].OriginalCount = parseInt(kept[i][2])
                   /\ t[i].RemainingCount = parseInt(kept[i][3])
            /\ ggame.TotalOriginalPrizes =
                   SumOver([i \in 1..Len(t) |-> t[i].OriginalCount], 1..Len(t))
            /\ ggame.TotalRemainingPrizes =
                   SumOver([i \in 1..Len(t) |-> t[i].RemainingCount], 1..Len(t))

\* The sum, in float64 and in the order of the tiers, of
\* (RemainingCount / remaining) * Value over the tiers of idx
RECURSIVE WeightedSum(_, _, _, _)
WeightedSum(t, idx, remaining, i) ==
    IF i = 0 THEN FZero(FALSE)
    ELSE IF i \notin idx THEN WeightedSum(t, idx, remaining, i - 1)
    ELSE FAdd(WeightedSum(t, idx, remaining, i - 1),
              FMul(FDiv(FFromBig(t[i].RemainingCount), remaining),
                   FFromBig(t[i].Value)))

\* The tiers with positive remaining count and positive value
Winning(t) ==
    {i \in 1..Len(t) : IntPositive(t[i].RemainingCount) /\ IntPositive(t[i].Value)}

\* x == y on float64: no NaN equals anything, the two zeros are equal
FEq(x, y) ==
    IF x.k = "nan" \/ y.k = "nan" THEN FALSE
    ELSE IF FIsZero(x) /\ FIsZero(y) THEN TRUE
    ELSE x = y

\* ev is the EV stated for g, rt being round(Odds * TotalRemainingPrizes), a
\* number
EVAsStated(g, ev, rt) ==
    /\ g.TotalRemainingPrizes = IntOf(0) => FEq(ev, FFromBig(g.Price))
    /\ (g.TotalRemainingPrizes # IntOf(0) /\ rt.k # "nan" /\ ~FIsZero(rt)) =>
           FEq(ev, FSub(FFromBig(g.Price),
                        WeightedSum(g.PrizeTiers, Winning(g.PrizeTiers), rt,
                                    Len(g.PrizeTiers))))

\* C7: EV is the price when TotalRemainingPrizes is 0; otherwise, when
\* RemainingTickets = round(Odds * TotalRemainingPrizes) is not 0, EV is the
\* price minus W, W being the sum over the tiers with positive remaining
\* count and positive value of RemainingCount / RemainingTickets * Value.
C7_EV ==
    gpc = "ev" =>
        EVAsStated(ggame, gev,
            MathRound(FMul(ggame.Odds, FFromBig(ggame.TotalRemainingPrizes))))

(***************************************************************************)
(* SpecTables: ExtractTables over every page of the bounds                 *)
(***************************************************************************)
InitTables == BuildIdle /\ TableInit /\ MainIdle /\ LinkIdle /\ GameIdle

NextTables ==
    \/ \E tok \in NextTokens(xseen) : XStartTag(tok) /\ UNCHANGED <<build, mainVars, linkVars, gameVars>>
    \/ \E tok \in NextTokens(xseen) : XEndTag(tok) /\ UNCHANGED <<build, mainVars, linkVars, gameVars>>
    \/ \E tok \in NextTokens(xseen) : XText(tok) /\ UNCHANGED <<build, mainVars, linkVars, gameVars>>
    \/ \E tok \in NextTokens(xseen) : XOther(tok) /\ UNCHANGED <<build, mainVars, linkVars, gameVars>>
    \/ XError /\ UNCHANGED <<build, mainVars, linkVars, gameVars>>

SpecTables == InitTables /\ [][NextTables]_vars

(***************************************************************************)
(* C9                                                                      *)
(***************************************************************************)
\* The members of a set of positions, in increasing order
RECURSIVE Ascending(_)
Ascending(ps) ==
    IF ps = {} THEN <<>>
    ELSE LET lo == CHOOSE i \in ps : \A j \in ps : i <= j
         IN  <<lo>> \o Ascending(ps \ {lo})

Starts(seen, name, a, b) ==
    {i \in (a + 1)..(b - 1) : seen[i].tt = "StartTag" /\ seen[i].data = name}

\* The position of the closing tag of the element opened at i, 0 when the
\* tokens read so far do not hold it
CloseOf(seen, name, i) ==
    LET ends == {j \in (i + 1)..Len(seen) :
                     seen[j].tt = "EndTag" /\ seen[j].data = name}
    IN  IF ends = {} THEN 0 ELSE CHOOSE j \in ends : \A k \in ends : j <= k

IsCellTag(tok, type) == tok.tt = type /\ tok.data \in {"td", "th"}

\* Position m lies in a cell opened after position k
InCellSince(seen, k, m) ==
    \E c \in (k + 1)..(m - 1) :
        /\ IsCellTag(seen[c], "StartTag")
        /\ \A e \in (c + 1)..(m - 1) : ~IsCellTag(seen[e], "EndTag")

NonBlank(chars) == \E i \in 1..Len(chars) : chars[i] \notin WhiteSpace

\* The trimmed non-blank texts of the cells of the row opened at k, up to b
TextsIn(seen, k, b) ==
    LET at == Ascending({m \in (k + 1)..(b - 1) :
                  /\ seen[m].tt = "Text"
                  /\ NonBlank(seen[m].data)
                  /\ InCellSince(seen, k, m)})
    IN  [i \in 1..Len(at) |-> TrimSpace(seen[at[i]].data)]

\* The closed rows of the table opened at a, up to b
RowsIn(seen, a, b) ==
    LET at == Ascending({k \in Starts(seen, "tr", a, b) :
                  CloseOf(seen, "tr", k) \in (k + 1)..(b - 1)})
    IN  [i \in 1..Len(at) |-> TextsIn(seen, at[i], CloseOf(seen, "tr", at[i]))]

\* The closed tables of the tokens read so far
ClosedTables(seen) ==
    LET at == Ascending({a \in Starts(seen, "table", 0, Len(seen) + 1) :
                  CloseOf(seen, "table", a) # 0})
    IN  [i \in 1..Len(at) |-> RowsIn(seen, at[i], CloseOf(seen, "table", at[i]))]

\* C9: on a page of properly closed, non-nested table, tr and td/th
\* elements, after every token the output holds exactly the tables closed
\* so far, in order, the table being read holds exactly its rows closed so
\* far, and the row being read the trimmed non-blank texts of its cells so
\* far; no emitted cell is the empty string.
C9_ExtractTables ==
    xpc \in {"scan", "done"} =>
        LET n     == Len(xseen)
            openT == {a \in Starts(xseen, "table", 0, n + 1) :
                          CloseOf(xseen, "table", a) = 0}
        IN  /\ tables = ClosedTables(xseen)
            /\ \A a \in openT :
                   /\ inTable
                   /\ currentTable = RowsIn(xseen, a, n + 1)
                   /\ \A k \in Starts(xseen, "tr", a, n + 1) :
                          CloseOf(xseen, "tr", k) = 0 =>
                              inRow /\ currentRow = TextsIn(xseen, k, n + 1)
            /\ \A t \in 1..Len(tables) : \A r \in 1..Len(tables[t]) :
                   \A c \in 1..Len(tables[t][r]) : tables[t][r][c] # <<>>

\* A whole page read: one table of one row whose cell text was trimmed
C9_Witness ==
    /\ xpc = "done"
    /\ tables = << << << <<"y", " ", "z">> >> >> >>
    /\ \E i \in 1..Len(xseen) : xseen[i] = Text(<<"\f", "y", " ", "z", "U+00A0">>)

(***************************************************************************)
(* SpecLinks: GetLinks over every landing page of the bounds               *)
(***************************************************************************)
InitLinks == BuildIdle /\ LinkInit /\ MainIdle /\ TableIdle /\ GameIdle

NextLinks ==
    \/ LGetHTMLGetError /\ UNCHANGED <<build, mainVars, tableVars, gameVars>>
    \/ LGetHTMLReadError /\ UNCHANGED <<build, mainVars, tableVars, gameVars>>
    \/ LGetHTML /\ UNCHANGED <<build, mainVars, tableVars, gameVars>>
    \/ \E tok \in NextLandingTokens(lseen) : LStartDiv(tok) /\ UNCHANGED <<build, mainVars, tableVars, gameVars>>
    \/ \E tok \in NextLandingTokens(lseen) : LEndDiv(tok) /\ UNCHANGED <<build, mainVars, tableVars, gameVars>>
    \/ \E tok \in NextLandingTokens(lseen) : LStartA(tok) /\ UNCHANGED <<build, mainVars, tableVars, gameVars>>
    \/ \E tok \in NextLandingTokens(lseen) : LOther(tok) /\ UNCHANGED <<build, mainVars, tableVars, gameVars>>
    \/ LError /\ UNCHANGED <<build, mainVars, tableVars, gameVars>>

SpecLinks == InitLinks /\ [][NextLinks]_vars

(***************************************************************************)
(* C4                                                                      *)
(***************************************************************************)
Markers(seen) == {i \in 1..Len(seen) : IsDivStart(seen[i]) /\ HasMarker(seen[i])}

\* The closing tag of the div opened at i: the first div end tag after i
\* that leaves as many divs open as were open before i
DivCloseOf(seen, i) ==
    CHOOSE j \in (i + 1)..Len(seen) :
        /\ IsDivEnd(seen[j])
        /\ OpenDivs(SubSeq(seen, 1, j)) = OpenDivs(SubSeq(seen, 1, i - 1))
        /\ \A k \in (i + 1)..(j - 1) :
               OpenDivs(SubSeq(seen, 1, k)) > OpenDivs(SubSeq(seen, 1, i - 1))

RECURSIVE HrefsBetween(_, _, _)
HrefsBetween(seen, a, b) ==
    IF a + 1 >= b THEN <<>>
    ELSE (IF seen[a + 1].tt = "StartTag" /\ seen[a + 1].data = "a"
          THEN Hrefs(seen[a + 1]) ELSE <<>>)
         \o HrefsBetween(seen, a + 1, b)

\* The hrefs of the anchors between the first marker div's start tag and
\* its own closing tag
ContainerLinks(seen) ==
    IF Markers(seen) = {} THEN <<>>
    ELSE LET first == CHOOSE i \in Markers(seen) : \A j \in Markers(seen) : i <= j
         IN  HrefsBetween(seen, first, DivCloseOf(seen, first))

\* C4: on a page of well-nested divs GetLinks returns, in document order,
\* exactly the hrefs of the anchors between the marker div's start tag and
\* its own closing tag, nested divs counted by depth, and nothing when there
\* is no marker div.  Stated for the pages with at most one marker div, where
\* which div is the first is not in question.
C4_ContainerLinks ==
    (lpc = "done" /\ Cardinality(Markers(lseen)) <= 1) =>
        links = ContainerLinks(lseen)

(***************************************************************************)
(* Spec: main, its fetch tasks and the report                              *)
(***************************************************************************)
Init == BuildInit /\ MainInit /\ LinkIdle /\ TableIdle /\ GameIdle

Next ==
    \/ MainGetHTMLGetError /\ UNCHANGED <<build, linkVars, tableVars, gameVars>>
    \/ MainGetHTMLReadError /\ UNCHANGED <<build, linkVars, tableVars, gameVars>>
    \/ MainGetLinks /\ UNCHANGED <<build, linkVars, tableVars, gameVars>>
    \/ MainLaunch /\ UNCHANGED <<build, linkVars, tableVars, gameVars>>
    \/ \E i \in 1..NLinks : TaskFetchGetError(i) /\ UNCHANGED <<build, linkVars, tableVars, gameVars>>
    \/ \E i \in 1..NLinks : TaskFetchReadError(i) /\ UNCHANGED <<build, linkVars, tableVars, gameVars>>
    \/ \E i \in 1..NLinks : \E body \in GamePages(i) :
           TaskFetchOK(i, body) /\ UNCHANGED <<build, linkVars, tableVars, gameVars>>
    \/ \E i \in 1..NLinks : TaskBuildGame(i) /\ UNCHANGED <<build, linkVars, tableVars, gameVars>>
    \/ \E i \in 1..NLinks : TaskBuildGamePanic(i) /\ UNCHANGED <<build, linkVars, tableVars, gameVars>>
    \/ \E i \in 1..NLinks : TaskLock(i) /\ UNCHANGED <<build, linkVars, tableVars, gameVars>>
    \/ \E i \in 1..NLinks : TaskAppend(i) /\ UNCHANGED <<build, linkVars, tableVars, gameVars>>
    \/ \E i \in 1..NLinks : TaskUnlock(i) /\ UNCHANGED <<build, linkVars, tableVars, gameVars>>
    \/ \E i \in 1..NLinks : TaskRelease(i) /\ UNCHANGED <<build, linkVars, tableVars, gameVars>>
    \/ \E i \in 1..NLinks : TaskPanicRelease(i) /\ UNCHANGED <<build, linkVars, tableVars, gameVars>>
    \/ \E i \in 1..NLinks : TaskCrash(i) /\ UNCHANGED <<build, linkVars, tableVars, gameVars>>
    \/ MainReacquire /\ UNCHANGED <<build, linkVars, tableVars, gameVars>>
    \/ MainSort /\ UNCHANGED <<build, linkVars, tableVars, gameVars>>
    \/ MainWriteCSV /\ UNCHANGED <<build, linkVars, tableVars, gameVars>>
    \/ MainWriteCSVShort /\ UNCHANGED <<build, linkVars, tableVars, gameVars>>
    \/ MainWriteCSVError /\ UNCHANGED <<build, linkVars, tableVars, gameVars>>
    \/ MainDone /\ UNCHANGED <<build, linkVars, tableVars, gameVars>>

Spec == Init /\ [][Next]_vars

(***************************************************************************)
(* C1, C2, C3, C5, C8, C10                                                 *)
(***************************************************************************)
\* The tasks that were started and have not released their slot
InFlight == {i \in 1..NLinks : tpc[i] \in {"fetch", "build", "lock", "append",
                                           "unlock", "release", "panic"}}

\* C1: in every reachable state the number of fetch tasks started and not
\* yet through their release of the slot is at most the capacity of the
\* limiter.
C1_AtMostCapInFlight ==
    /\ Cardinality(InFlight) <= SemCap
    /\ sem = Cardinality(InFlight) + wi

\* The launcher held back: every slot taken by a running task, links left
C1_Witness ==
    /\ pc = "launch"
    /\ Cardinality(InFlight) = SemCap
    /\ li <= NLinks

\* C2: main reaches the sort, and what follows it, only after every one of
\* the N tasks has appended its result and released its slot.
C2_SortAfterAllTasks ==
    pc \in {"sort", "write", "print", "done"} =>
        \A i \in 1..NLinks : tpc[i] = "done"

\* C3: a failed fetch (http.Get or the read of the body) leaves its link
\* without a Game and the run going: it neither ends the process nor makes
\* the task panic.
C3_FetchFailureSkipped ==
    \A i \in 1..NLinks :
        fetched[i] \in {"geterr", "readerr"} =>
            /\ exit \notin {"fatal_get", "panic"}
            /\ tpc[i] \notin {"panic", "dying"}

\* C5: a page with fewer than two tables, with a prize table without rows,
\* or a fetch that returned no tables, never crashes the run: the task gets
\* a Game of zero-valued defaults from BuildGame and goes on.
C5_MalformedPageZeroGame ==
    \A i \in 1..NLinks :
        (tpc[i] \notin {"idle", "fetch", "build"} /\ BuildGamePanics(ttables[i])) =>
            /\ tpc[i] \notin {"panic", "dying"}
            /\ exit # "panic"
            /\ tg[i].PrizeTiers = <<>>
            /\ tg[i].TotalRemainingPrizes = IntOf(0)

\* The tasks whose Game is in the collection
Appended == {i \in 1..NLinks : tpc[i] \in {"unlock", "release", "done"}}

\* C8: the records of the written report are the aggregated Games, each
\* exactly once, in an order in which EV never increases from one record to
\* the next, neither the EV of the Games nor the EV the records spell.
C8_ReportSortedByEV ==
    pc \in {"print", "done"} =>
        LET data == Tail(rows)
        IN  /\ rows # <<>>
            /\ rows[1] = CSVHeader
            /\ Len(data) = Cardinality(Appended)
            /\ Len(data) = Len(games)
            /\ \A i \in Appended :
                   Cardinality({k \in 1..Len(data) :
                       games[k] = tg[i] /\ data[k] = CSVRow(tg[i])}) = 1
            /\ \A k \in 1..(Len(data) - 1) :
                   /\ ~FLess(EV(games[k]), EV(games[k + 1]))
                   /\ ~FLess(ParseFloat(data[k][9]), ParseFloat(data[k + 1][9]))

\* C10: at most one task at a time is between mu.Lock() and mu.Unlock(),
\* and when every fetch succeeded the collection that reaches the sort holds
\* exactly one Game per discovered link.
C10_OneGamePerLink ==
    /\ Cardinality({i \in 1..NLinks : tpc[i] \in {"append", "unlock"}}) <= 1
    /\ (pc = "sort" /\ \A i \in 1..NLinks : fetched[i] = "ok") =>
           /\ Len(games) = NLinks
           /\ \A i \in 1..NLinks :
                  Cardinality({k \in 1..Len(games) : games[k].URL = LinkURL(i)}) = 1
=============================================================================
